---- MODULE Spec2Model ----
(***************************************************************************)
(* OW2-Hero-Map-Stats: the field extraction and validation engine          *)
(* (screenshot_utils.py) and the batch import (ReadScreenshot.py).         *)
(*                                                                         *)
(* OCR is an external collaborator: an image is modelled by the texts the  *)
(* OCR engine returns for each region under each preprocessing preset.     *)
(* A text is a sequence of one-character strings, so that strip, upper,    *)
(* re.sub, str.replace, re.search and difflib work on characters as the    *)
(* Python code does.  None stands for the Python None of an optional str   *)
(* or list: the code tests these values by truth (if not text, if hero,    *)
(* if final_data), where None and the empty value behave alike.            *)
(***************************************************************************)
EXTENDS Integers, Sequences, FiniteSets, TLC

None == <<>>

(***************************************************************************)
(* Characters and the str methods the extractors use.                      *)
(***************************************************************************)
\* A character is a one-character string, except for three characters
\* outside Latin-1, which are written as their code points: the capital I
\* with a dot above, the dotless small i and the long s.
DOTTED_I == "U+0130"

DOTLESS_I == "U+0131"

LONG_S == "U+017F"

LOWER ==
  <<"a","b","c","d","e","f","g","h","i","j","k","l","m","n","o","p","q","r",
    "s","t","u","v","w","x","y","z","é","ü","ö","ä","ñ","ú","í","ç",DOTLESS_I,LONG_S>>

UPPER ==
  <<"A","B","C","D","E","F","G","H","I","J","K","L","M","N","O","P","Q","R",
    "S","T","U","V","W","X","Y","Z","É","Ü","Ö","Ä","Ñ","Ú","Í","Ç","I","S">>

DIGITS == <<"0","1","2","3","4","5","6","7","8","9">>

WHITESPACE == {" ", "\n", "\t"}

\* Unicode code point order of the characters of upper-cased names
\* (str comparison in heapq.nlargest compares code points).
CODE_ORDER ==
  <<" ", "-", ".", "0","1","2","3","4","5","6","7","8","9", ":",
    "A","B","C","D","E","F","G","H","I","J","K","L","M","N","O","P","Q","R",
    "S","T","U","V","W","X","Y","Z","Ä","É","Ñ","Ö","Ú","Ü">>

IndexIn(seq, c) == CHOOSE i \in DOMAIN seq : seq[i] = c

InSeq(seq, c) == \E i \in DOMAIN seq : seq[i] = c

\* str.upper, one character
CharUpper(c) == IF InSeq(LOWER, c) THEN UPPER[IndexIn(LOWER, c)] ELSE c

\* str.upper
\* re.IGNORECASE: character c matches the upper-case pattern letter p.  The
\* dotted capital I (U+0130) matches I although str.upper leaves it as it is.
IgnoreCaseEq(c, p) == CharUpper(c) = p \/ (c = DOTTED_I /\ p = "I")

StrUpper(s) == [i \in DOMAIN s |-> CharUpper(s[i])]

IsDigit(c) == InSeq(DIGITS, c)

DigitVal(c) == IndexIn(DIGITS, c) - 1

\* int() of a run of decimal digits
RECURSIVE ParseInt(_)
ParseInt(s) ==
  IF s = <<>> THEN 0
  ELSE 10 * ParseInt(SubSeq(s, 1, Len(s) - 1)) + DigitVal(s[Len(s)])

\* str.lstrip / str.strip
RECURSIVE LStrip(_)
LStrip(s) ==
  IF s # <<>> /\ s[1] \in WHITESPACE THEN LStrip(Tail(s)) ELSE s

RECURSIVE RStrip(_)
RStrip(s) ==
  IF s # <<>> /\ s[Len(s)] \in WHITESPACE
  THEN RStrip(SubSeq(s, 1, Len(s) - 1)) ELSE s

Strip(s) == RStrip(LStrip(s))

\* s[i:].startswith(pat), i a 1-based position
StartsWithAt(s, i, pat) ==
  /\ i + Len(pat) - 1 <= Len(s)
  /\ \A k \in 1..Len(pat) : s[i + k - 1] = pat[k]

\* str.replace(wrong, right): non-overlapping occurrences, left to right
RECURSIVE StrReplace(_, _, _)
StrReplace(s, wrong, right) ==
  IF s = <<>> THEN <<>>
  ELSE IF StartsWithAt(s, 1, wrong)
       THEN right \o StrReplace(SubSeq(s, Len(wrong) + 1, Len(s)), wrong, right)
       ELSE <<s[1]>> \o StrReplace(Tail(s), wrong, right)

\* lexicographic str comparison a > b by code point
RECURSIVE StrGreater(_, _)
StrGreater(a, b) ==
  IF a = <<>> THEN FALSE
  ELSE IF b = <<>> THEN TRUE
  ELSE IF a[1] = b[1] THEN StrGreater(Tail(a), Tail(b))
  ELSE IndexIn(CODE_ORDER, a[1]) > IndexIn(CODE_ORDER, b[1])

\* heros.py: OVERWATCH_HEROES, one sequence of names per role, each name a sequence of characters.
OVERWATCH_HEROES ==
  [ TANK |-> <<
      <<"D",".","V","a">>,  \* D.Va
      <<"D","o","o","m","f","i","s","t">>,  \* Doomfist
      <<"H","a","z","a","r","d">>,  \* Hazard
      <<"J","u","n","k","e","r"," ","Q","u","e","e","n">>,  \* Junker Queen
      <<"M","a","u","g","a">>,  \* Mauga
      <<"O","r","i","s","a">>,  \* Orisa
      <<"R","a","m","a","t","t","r","a">>,  \* Ramattra
      <<"R","e","i","n","h","a","r","d","t">>,  \* Reinhardt
      <<"R","o","a","d","h","o","g">>,  \* Roadhog
      <<"S","i","g","m","a">>,  \* Sigma
      <<"W","i","n","s","t","o","n">>,  \* Winston
      <<"W","r","e","c","k","i","n","g"," ","B","a","l","l">>,  \* Wrecking Ball
      <<"Z","a","r","y","a">>  \* Zarya
    >>,
    DAMAGE |-> <<
      <<"A","s","h","e">>,  \* Ashe
      <<"B","a","s","t","i","o","n">>,  \* Bastion
      <<"C","a","s","s","i","d","y">>,  \* Cassidy
      <<"E","c","h","o">>,  \* Echo
      <<"F","r","e","j","a">>,  \* Freja
      <<"G","e","n","j","i">>,  \* Genji
      <<"H","a","n","z","o">>,  \* Hanzo
      <<"J","u","n","k","r","a","t">>,  \* Junkrat
      <<"M","e","i">>,  \* Mei
      <<"P","h","a","r","a","h">>,  \* Pharah
      <<"R","e","a","p","e","r">>,  \* Reaper
      <<"S","o","j","o","u","r","n">>,  \* Sojourn
      <<"S","o","l","d","i","e","r",":"," ","7","6">>,  \* Soldier: 76
      <<"S","o","m","b","r","a">>,  \* Sombra
      <<"S","y","m","m","e","t","r","a">>,  \* Symmetra
      <<"T","o","r","b","j","ö","r","n">>,  \* Torbj?rn
      <<"T","r","a","c","e","r">>,  \* Tracer
      <<"V","e","n","t","u","r","e">>,  \* Venture
      <<"W","i","d","o","w","m","a","k","e","r">>  \* Widowmaker
    >>,
    SUPPORT |-> <<
      <<"A","n","a">>,  \* Ana
      <<"B","a","p","t","i","s","t","e">>,  \* Baptiste
      <<"B","r","i","g","i","t","t","e">>,  \* Brigitte
      <<"I","l","l","a","r","i">>,  \* Illari
      <<"J","u","n","o">>,  \* Juno
      <<"K","i","r","i","k","o">>,  \* Kiriko
      <<"L","i","f","e","w","e","a","v","e","r">>,  \* Lifeweaver
      <<"L","ú","c","i","o">>,  \* L?cio
      <<"M","e","r","c","y">>,  \* Mercy
      <<"M","o","i","r","a">>,  \* Moira
      <<"Z","e","n","y","a","t","t","a">>  \* Zenyatta
    >> ]

\* heros.py: HERO_CORRECTIONS, the pairs <<misread key, canonical name>> in table order.
HERO_CORRECTIONS ==
  <<
    <<<<"A","N","N","A">>, <<"A","n","a">>>>,
    <<<<"A","S","H","E","E">>, <<"A","s","h","e">>>>,
    <<<<"A","S","H">>, <<"A","s","h","e">>>>,
    <<<<"B","A","P","T","I","S","T">>, <<"B","a","p","t","i","s","t","e">>>>,
    <<<<"B","A","J","T","I","O","N">>, <<"B","a","s","t","i","o","n">>>>,
    <<<<"B","R","I","G","I","T","E">>, <<"B","r","i","g","i","t","t","e">>>>,
    <<<<"C","A","S","S","I","D">>, <<"C","a","s","s","i","d","y">>>>,
    <<<<"C","A","S","S","A","D","Y">>, <<"C","a","s","s","i","d","y">>>>,
    <<<<"D",".","V","A">>, <<"D",".","V","a">>>>,
    <<<<"D","V","A">>, <<"D",".","V","a">>>>,
    <<<<"L","V","A">>, <<"D",".","V","a">>>>,
    <<<<"O","V","A">>, <<"D",".","V","a">>>>,
    <<<<"D","O","O","M","E","S","T">>, <<"D","o","o","m","f","i","s","t">>>>,
    <<<<"E","C","H","D">>, <<"E","c","h","o">>>>,
    <<<<"F","R","E","I","A">>, <<"F","r","e","j","a">>>>,
    <<<<"G","E","N","J","U">>, <<"G","e","n","j","i">>>>,
    <<<<"G","E","N","J">>, <<"G","e","n","j","i">>>>,
    <<<<"G","E","N","S","U">>, <<"G","e","n","j","i">>>>,
    <<<<"H","A","N","Z","A">>, <<"H","a","n","z","o">>>>,
    <<<<"H","A","N","D","Z","O">>, <<"H","a","n","z","o">>>>,
    <<<<"H","A","Z","A","R","O">>, <<"H","a","z","a","r","d">>>>,
    <<<<"I","L","L","A","R">>, <<"I","l","l","a","r","i">>>>,
    <<<<"F","L","L","R","R","I">>, <<"I","l","l","a","r","i">>>>,
    <<<<"J","U","N","K","E","R","Q","U","E","E","N">>, <<"J","u","n","k","e","r"," ","Q","u","e","e","n">>>>,
    <<<<"S","U","N","K","E","R","Q","U","E","E","N">>, <<"J","u","n","k","e","r"," ","Q","u","e","e","n">>>>,
    <<<<"J","U","N","K","R","A","T","T">>, <<"J","u","n","k","r","a","t">>>>,
    <<<<"S","U","N","K","R","A","T">>, <<"J","u","n","k","r","a","t">>>>,
    <<<<"S","U","N","G">>, <<"J","u","n","o">>>>,
    <<<<"J","U","N","G">>, <<"J","u","n","o">>>>,
    <<<<"J","U","N","G"," ">>, <<"J","u","n","o">>>>,
    <<<<"J","U","N","O">>, <<"J","u","n","o">>>>,
    <<<<"K","I","R","I","K","K","O">>, <<"K","i","r","i","k","o">>>>,
    <<<<"L","I","F","E","W","E","A","V","E","R">>, <<"L","i","f","e","w","e","a","v","e","r">>>>,
    <<<<"L","I","F","E"," ","W","E","A","V","E","R">>, <<"L","i","f","e","w","e","a","v","e","r">>>>,
    <<<<"L","I","F","E","W","E","V","E","R">>, <<"L","i","f","e","w","e","a","v","e","r">>>>,
    <<<<"L","I","F","F","W","E","V","E","R">>, <<"L","i","f","e","w","e","a","v","e","r">>>>,
    <<<<"L","U","C","I","O">>, <<"L","ú","c","i","o">>>>,
    <<<<"L","U","E">>, <<"L","ú","c","i","o">>>>,
    <<<<"M","A","U","G","R">>, <<"M","a","u","g","a">>>>,
    <<<<"M","E">>, <<"M","e","i">>>>,
    <<<<"M","E","R","E","C","Y">>, <<"M","e","r","c","y">>>>,
    <<<<"M","O","I","R","H","A">>, <<"M","o","i","r","a">>>>,
    <<<<"M","O","R","I","A">>, <<"M","o","i","r","a">>>>,
    <<<<"D","R","I","S","A">>, <<"O","r","i","s","a">>>>,
    <<<<"P","H","A","R","A">>, <<"P","h","a","r","a","h">>>>,
    <<<<"F","A","R","A","H">>, <<"P","h","a","r","a","h">>>>,
    <<<<"A","R","A","M","A","T","I","R","A">>, <<"R","a","m","a","t","t","r","a">>>>,
    <<<<"R","A","M","A","T","I","R","A">>, <<"R","a","m","a","t","t","r","a">>>>,
    <<<<"R","E","A","P","A","R">>, <<"R","e","a","p","e","r">>>>,
    <<<<"R","E","I","N","H","A","R","D">>, <<"R","e","i","n","h","a","r","d","t">>>>,
    <<<<"R","D","A","D","H","O","G">>, <<"R","o","a","d","h","o","g">>>>,
    <<<<"R","O","A","D","H","D","G">>, <<"R","o","a","d","h","o","g">>>>,
    <<<<"R","D","A","D","H","D","G">>, <<"R","o","a","d","h","o","g">>>>,
    <<<<"S","I","G","M","A","A">>, <<"S","i","g","m","a">>>>,
    <<<<"S","O","J","O","U","R">>, <<"S","o","j","o","u","r","n">>>>,
    <<<<"S","O","S","O","U","R","N">>, <<"S","o","j","o","u","r","n">>>>,
    <<<<"S","O","L","D","I","E","R">>, <<"S","o","l","d","i","e","r",":"," ","7","6">>>>,
    <<<<"S","O","L","D","I","E","R"," ","7","6">>, <<"S","o","l","d","i","e","r",":"," ","7","6">>>>,
    <<<<"S","O","L","D","I","E","R","7","6">>, <<"S","o","l","d","i","e","r",":"," ","7","6">>>>,
    <<<<"S","O","M","B","R","I">>, <<"S","o","m","b","r","a">>>>,
    <<<<"S","Y","M","E","T","R","A">>, <<"S","y","m","m","e","t","r","a">>>>,
    <<<<"T","O","R","B","J","O","R","N">>, <<"T","o","r","b","j","ö","r","n">>>>,
    <<<<"T","O","R","B","S","O","R","N">>, <<"T","o","r","b","j","ö","r","n">>>>,
    <<<<"T","R","A","C","A","R">>, <<"T","r","a","c","e","r">>>>,
    <<<<"V","E","N","T","U","R">>, <<"V","e","n","t","u","r","e">>>>,
    <<<<"W","I","D","O","W">>, <<"W","i","d","o","w","m","a","k","e","r">>>>,
    <<<<"W","I","D","O","W"," ","M","A","K","E","R">>, <<"W","i","d","o","w","m","a","k","e","r">>>>,
    <<<<"W","I","N","J","T","O","N">>, <<"W","i","n","s","t","o","n">>>>,
    <<<<"W","I","N","I","T","O","N">>, <<"W","i","n","s","t","o","n">>>>,
    <<<<"W","I","N","S","I","O","N">>, <<"W","i","n","s","t","o","n">>>>,
    <<<<"W","R","E","C","K","I","N","G"," ","B","A","L","I">>, <<"W","r","e","c","k","i","n","g"," ","B","a","l","l">>>>,
    <<<<"W","R","E","C","K","I","N","G"," ","B","R","L">>, <<"W","r","e","c","k","i","n","g"," ","B","a","l","l">>>>,
    <<<<"W","R","E","C","K","I","N","G","B","A","L","L">>, <<"W","r","e","c","k","i","n","g"," ","B","a","l","l">>>>,
    <<<<"Z","A","R","Y","G">>, <<"Z","a","r","y","a">>>>,
    <<<<"Z","A","R","I","Y","A">>, <<"Z","a","r","y","a">>>>,
    <<<<"Z","E","N","Y","A","T","T">>, <<"Z","e","n","y","a","t","t","a">>>>,
    <<<<"Z","E","N","Y","A","T","A">>, <<"Z","e","n","y","a","t","t","a">>>>
  >>

\* sum(overwatch_heroes.values(), []): the roles in dict order
AllHeroes ==
  OVERWATCH_HEROES.TANK \o OVERWATCH_HEROES.DAMAGE \o OVERWATCH_HEROES.SUPPORT

(***************************************************************************)
(* difflib.SequenceMatcher(a = candidate, b = word).ratio(), no junk       *)
(* (autojunk needs 200 characters), as used by get_close_matches.          *)
(***************************************************************************)
\* length of the common run of a[i..ahi] and b[j..bhi]
RECURSIVE RunLen(_, _, _, _, _, _)
RunLen(a, i, ahi, b, j, bhi) ==
  IF i <= ahi /\ j <= bhi /\ a[i] = b[j]
  THEN 1 + RunLen(a, i + 1, ahi, b, j + 1, bhi)
  ELSE 0

\* of the blocks <<i, j, size>>: the longest, of those the one starting
\* earliest in a, of those the one starting earliest in b
BlockBefore(x, y) ==
  \/ x[3] > y[3]
  \/ x[3] = y[3] /\ x[1] < y[1]
  \/ x[3] = y[3] /\ x[1] = y[1] /\ x[2] <= y[2]

LargestSize(sizes) == CHOOSE n \in sizes : \A n2 \in sizes : n >= n2

FirstBlock(blocks) == CHOOSE x \in blocks : \A y \in blocks : BlockBefore(x, y)

LongestBlocks(blocks, size) == FirstBlock({x \in blocks : x[3] = size})

PickBlock(blocks, alo, blo) ==
  IF blocks = {} THEN <<alo, blo, 0>>
  ELSE LongestBlocks(blocks, LargestSize({x[3] : x \in blocks}))

\* find_longest_match(alo, ahi, blo, bhi) = <<i, j, size>>
find_longest_match(a, alo, ahi, b, blo, bhi) ==
  PickBlock({ <<i, j, RunLen(a, i, ahi, b, j, bhi)>> :
                i \in alo..ahi, j \in blo..bhi }, alo, blo)

\* get_matching_blocks: the total size of the matching blocks, the longest
\* block first, then the blocks to its left and to its right
RECURSIVE MatchingSize(_, _, _, _, _, _)
RECURSIVE MatchingSizeAround(_, _, _, _, _, _, _)
MatchingSize(a, alo, ahi, b, blo, bhi) ==
  MatchingSizeAround(a, alo, ahi, b, blo, bhi,
                     find_longest_match(a, alo, ahi, b, blo, bhi))

MatchingSizeAround(a, alo, ahi, b, blo, bhi, m) ==
  IF m[3] = 0 THEN 0
  ELSE m[3]
       + MatchingSize(a, alo, m[1] - 1, b, blo, m[2] - 1)
       + MatchingSize(a, m[1] + m[3], ahi, b, m[2] + m[3], bhi)

\* ratio() = 2.0 * matches / (len(a) + len(b)), kept as the pair
\* <<2 * matches, length>>; 1.0 when both are empty
Ratio(a, b) ==
  IF Len(a) + Len(b) = 0 THEN <<1, 1>>
  ELSE <<2 * MatchingSize(a, 1, Len(a), b, 1, Len(b)), Len(a) + Len(b)>>

RatioGeq(r, num, den) == r[1] * den >= num * r[2]

RatioGreater(r, q) == r[1] * q[2] > q[1] * r[2]

\* (score, x) >= (score, y) as Python compares the tuples
ScoredGeq(x, y) ==
  \/ RatioGreater(x[1], y[1])
  \/ ~RatioGreater(y[1], x[1]) /\ ~StrGreater(y[2], x[2])

\* heapq.nlargest(1, result): the candidates of the largest (score, x)
nlargest1(result) ==
  IF result = {} THEN <<>>
  ELSE <<(CHOOSE x \in result : \A y \in result : ScoredGeq(x, y))[2]>>

AboveCutoff(scored, num, den) == {x \in scored : RatioGeq(x[1], num, den)}

\* get_close_matches(word, possibilities, n=1, cutoff=num/den): the best
\* match in a list, or the empty list
get_close_matches(word, possibilities, num, den) ==
  nlargest1(AboveCutoff({ <<Ratio(possibilities[i], word), possibilities[i]>> :
                            i \in DOMAIN possibilities }, num, den))

InCorrections(table, key) == \E i \in DOMAIN table : table[i][1] = key

\* a variant of Correction that returns the key, the cleaned text itself
CorrectionKeyItself(table, key) == key

Correction(table, key) == table[CHOOSE i \in DOMAIN table : table[i][1] = key][2]

\* re.sub(r'[^A-Z\s:.\-ÉÜÖÄÑ]', '', upper_text)
HERO_NAME_CHARS ==
  {"A","B","C","D","E","F","G","H","I","J","K","L","M","N","O","P","Q","R",
   "S","T","U","V","W","X","Y","Z",":",".","-","É","Ü","Ö","Ä","Ñ"}
  \cup WHITESPACE

KeepHeroChars(s) == SelectSeq(s, LAMBDA c : c \in HERO_NAME_CHARS)

\* [h.upper() for h in heroes]
UpperNames(heroes) == [i \in DOMAIN heroes |-> StrUpper(heroes[i])]

\* the first hero of the vocabulary whose upper-cased name is `upper`
HeroWithUpper(heroes, uppers, upper) ==
  heroes[CHOOSE i \in DOMAIN heroes :
           /\ uppers[i] = upper
           /\ \A j \in 1..(i - 1) : uppers[j] # upper]

\* cutoff=0.8
FUZZY_CUTOFF_NUM == 8

FUZZY_CUTOFF_DEN == 10

\* clean_hero_name, step 3: the close match, if there is one
clean_hero_name_close(matches, heroes, uppers) ==
  IF matches # <<>> THEN HeroWithUpper(heroes, uppers, matches[1]) ELSE None

\* clean_hero_name, steps 1 to 3 on the cleaned upper-case text
clean_hero_name_upper(upper_text, hero_corrections, heroes, uppers) ==
  IF InCorrections(hero_corrections, upper_text)
    THEN Correction(hero_corrections, upper_text)
  ELSE IF \E i \in DOMAIN uppers : uppers[i] = upper_text
    THEN HeroWithUpper(heroes, uppers, upper_text)
  ELSE clean_hero_name_close(
         get_close_matches(upper_text, uppers, FUZZY_CUTOFF_NUM, FUZZY_CUTOFF_DEN),
         heroes, uppers)

\* screenshot_utils.clean_hero_name(text, hero_corrections, overwatch_heroes),
\* heroes = sum(overwatch_heroes.values(), [])
clean_hero_name(text, hero_corrections, heroes) ==
  IF Strip(text) = <<>> THEN None
  ELSE clean_hero_name_upper(KeepHeroChars(StrUpper(Strip(text))),
                             hero_corrections, heroes, UpperNames(heroes))

(***************************************************************************)
(* screenshot_utils.extract_percentage                                     *)
(***************************************************************************)
\* the literal substitutions, in dict order
PERCENTAGE_CORRECTIONS ==
  << <<"7","j","0","0">>, <<"z","j","0","0">>, <<"]","0","0">>,
     <<"7","0","o">>, <<"7","o","0">>, <<"T","0","0">>,
     <<"l","j","0","0">>, <<"i","0","0">>, <<"?","0","0">> >>

RECURSIVE ApplyCorrections(_, _)
ApplyCorrections(text, k) ==
  IF k > Len(PERCENTAGE_CORRECTIONS) THEN text
  ELSE ApplyCorrections(
         StrReplace(text, PERCENTAGE_CORRECTIONS[k], <<"1","0","0">>), k + 1)

\* re.search(r'(\d{1,3})%?', text).group(1): the first digit and at most
\* two digits that follow it; <<>> when the text holds no digit
FirstDigitRun(text) ==
  IF \A i \in DOMAIN text : ~IsDigit(text[i]) THEN <<>>
  ELSE LET i == CHOOSE p \in DOMAIN text :
                  IsDigit(text[p]) /\ \A q \in 1..(p - 1) : ~IsDigit(text[q])
           n == IF i + 1 <= Len(text) /\ IsDigit(text[i + 1])
                THEN IF i + 2 <= Len(text) /\ IsDigit(text[i + 2]) THEN 3 ELSE 2
                ELSE 1
       IN  SubSeq(text, i, i + n - 1)

extract_percentage(text) ==
  LET run == FirstDigitRun(ApplyCorrections(text, 1))
  IN  IF run = <<>> THEN 0 ELSE ParseInt(run)

(***************************************************************************)
(* Constants of screenshot_utils.py                                        *)
(***************************************************************************)
PERCENTAGE_MIN == 98

PERCENTAGE_MAX == 102

\* the name/percentage region pairs of sorted(HERO_REGIONS.items())
NUM_SLOTS == 3

SLOTS == 1..NUM_SLOTS

\* recognize_hero: attempts, in order
HERO_ATTEMPTS == <<"Primary", "Secondary", "Tertiary">>

\* the percentage presets of the two passes
PERCENTAGE_SETTINGS == {"Primary", "Secondary"}

(***************************************************************************)
(* Sample OCR outputs.  An image is                                        *)
(*   [hero : slot -> attempt -> text, perc : slot -> settings -> text],    *)
(* the text pytesseract.image_to_string returns for the slot's name region *)
(* under each hero preset and for its percentage region under each         *)
(* percentage preset.                                                      *)
(***************************************************************************)
TxtEmpty == <<>>

TxtSigma == <<"S","i","g","m","a","\n">>

TxtNoise == <<"X","Q">>

TxtDigits == <<"1","2">>

TxtZar == <<"Z","A","R">>

TxtZaryg == <<" ","Z","A","R","Y","G">>

TxtMaug4 == <<"M","A","U","G","4">>

SampleHeroTexts ==
  {TxtEmpty, TxtSigma, TxtNoise, TxtDigits, TxtZar, TxtZaryg, TxtMaug4}

\* per slot, the texts of the name region under the three hero presets
HeroTextChoices(slot) ==
  CASE slot = 1 -> { <<TxtSigma, TxtEmpty, TxtEmpty>>,
                     <<TxtNoise, TxtEmpty, TxtDigits>> }
    [] slot = 2 -> { <<TxtZar, TxtZaryg, TxtEmpty>>,
                     <<TxtEmpty, TxtEmpty, TxtEmpty>> }
    [] slot = 3 -> { <<TxtEmpty, TxtNoise, TxtMaug4>>,
                     <<TxtEmpty, TxtEmpty, TxtEmpty>> }

P0 == <<"0","%">>

P1 == <<"1","%">>

P2 == <<"2">>

P95 == <<"9","5","%">>

P96 == <<"9","6","%"," ">>

P97 == <<"9","7","%">>

P98 == <<"9","8","%">>

P99 == <<"9","9">>

P100 == <<"7","j","0","0","%">>

P101 == <<"1","0","1","%">>

P102 == <<"1","0","2","%">>

P103 == <<"1","0","3","%">>

PNone == <<"%">>

SamplePercentageTexts ==
  {TxtEmpty, PNone, P0, P1, P2, P95, P96, P97, P98, P99, P100, P101, P102, P103}

\* per slot and percentage preset, the texts of the percentage region
PercTextChoices(slot, settings) ==
  CASE slot = 1 /\ settings = "Primary" ->
         {PNone, P95, P96, P97, P98, P100, P102, P103}
    [] slot = 1 /\ settings = "Secondary" ->
         {P0, P95, P98, P99, P101, P103}
    [] slot = 2 -> {TxtEmpty, P1, P2}
    [] slot = 3 -> {P0, P1}

\* the image with the given texts per slot
MakeImage(h, p, s) ==
  [hero |-> h,
   perc |-> [i \in SLOTS |-> [Primary |-> p[i], Secondary |-> s[i]]]]

(***************************************************************************)
(* screenshot_utils.recognize_hero                                         *)
(***************************************************************************)
\* pytesseract.image_to_string(processed, config=HERO_CONFIG).strip()
HeroOcrText(texts, k) == Strip(texts[k])

\* clean_hero_name(text, HERO_CORRECTIONS, OVERWATCH_HEROES) for the sample
\* texts, as the pairs <<text, cleaned name>>, evaluated once
cleaned_names ==
  { <<t, clean_hero_name(t, HERO_CORRECTIONS, AllHeroes)>> :
      t \in {Strip(x) : x \in SampleHeroTexts} }

hero_of_text(text) == (CHOOSE p \in cleaned_names : p[1] = text)[2]

\* the loop of recognize_hero from attempt k on: the first cleaned name
RECURSIVE recognize_hero_from(_, _)
recognize_hero_from(texts, k) ==
  IF k > Len(HERO_ATTEMPTS) THEN None
  ELSE LET hero == hero_of_text(HeroOcrText(texts, k))
       IN  IF hero # None THEN hero ELSE recognize_hero_from(texts, k + 1)

recognize_hero(texts) == recognize_hero_from(texts, 1)

(***************************************************************************)
(* screenshot_utils.extract_hero_data                                      *)
(***************************************************************************)
\* extract_percentage(text) for the sample texts, as the pairs
\* <<text, percentage>>, evaluated once
parsed_percentages ==
  { <<t, extract_percentage(t)>> : t \in {Strip(x) : x \in SamplePercentageTexts} }

percentage_of_text(text) == (CHOOSE p \in parsed_percentages : p[1] = text)[2]

\* a variant of percentage_detected that also keeps a percentage of 0
percentage_detected_or_zero(percentage) == percentage >= 0

\* percentage > 0: the slot is appended to hero_data
percentage_detected(percentage) == percentage > 0

\* one iteration of the loop of attempt_extraction for slot i
attempt_slot(image, settings, i, acc) ==
  LET hero_name == recognize_hero(image.hero[i])
      perc_text == Strip(image.perc[i][settings])
      percentage == percentage_of_text(perc_text)
  IN  IF hero_name = None THEN acc
      ELSE IF percentage_detected(percentage)
      THEN [hero_data |-> Append(acc.hero_data,
                                 [hero |-> hero_name, percentage |-> percentage]),
            total_percentage |-> acc.total_percentage + percentage]
      ELSE acc

RECURSIVE attempt_loop(_, _, _, _)
attempt_loop(image, settings, i, acc) ==
  IF i > NUM_SLOTS THEN acc
  ELSE attempt_loop(image, settings, i + 1, attempt_slot(image, settings, i, acc))

\* attempt_extraction(settings_name, settings):
\* (hero_data, total_percentage, num_heroes)
attempt_extraction(image, settings) ==
  LET r == attempt_loop(image, settings, 1,
                        [hero_data |-> <<>>, total_percentage |-> 0])
  IN  [hero_data |-> r.hero_data,
       total |-> r.total_percentage,
       heroes |-> Len(r.hero_data)]

Abs(n) == IF n < 0 THEN -n ELSE n

\* a variant of needs_retry whose lower bound is inclusive
needs_retry_inclusive_min(primary_total, primary_heroes) ==
  /\ primary_heroes > 0
  /\ \/ primary_total > PERCENTAGE_MAX
     \/ primary_heroes <= 2 /\ primary_total <= PERCENTAGE_MIN

\* a variant of needs_retry without the guard primary_heroes > 0
needs_retry_unguarded(primary_total, primary_heroes) ==
  \/ primary_total > PERCENTAGE_MAX
  \/ primary_heroes <= 2 /\ primary_total < PERCENTAGE_MIN

\* "Check if retry needed"
needs_retry(primary_total, primary_heroes) ==
  /\ primary_heroes > 0
  /\ \/ primary_total > PERCENTAGE_MAX
     \/ primary_heroes <= 2 /\ primary_total < PERCENTAGE_MIN

\* a variant of use_secondary that also takes the secondary result on a tie
use_secondary_on_tie(p, s) ==
  \/ s.heroes > p.heroes
  \/ s.heroes = p.heroes /\ Abs(s.total - 100) <= Abs(p.total - 100)

\* "Choose better result": TRUE when the secondary result is used
use_secondary(p, s) ==
  \/ s.heroes > p.heroes
  \/ s.heroes = p.heroes /\ Abs(s.total - 100) < Abs(p.total - 100)

\* a variant of final_invalid that applies the lower bound to every count
final_invalid_any_count(final_total, num_heroes) ==
  \/ final_total > PERCENTAGE_MAX
  \/ final_total < PERCENTAGE_MIN

\* "Final validation": the data is invalid
final_invalid(final_total, num_heroes) ==
  \/ final_total > PERCENTAGE_MAX
  \/ num_heroes <= 2 /\ final_total < PERCENTAGE_MIN

\* a variant of validated that caps every percentage at 100
validated_capped(final_data, final_total) ==
  IF final_data # <<>>
  THEN IF final_invalid(final_total, Len(final_data)) THEN None
       ELSE [i \in DOMAIN final_data |->
               [hero |-> final_data[i].hero,
                percentage |-> IF final_data[i].percentage > 100 THEN 100
                               ELSE final_data[i].percentage]]
  ELSE None

\* the value returned after final validation
validated(final_data, final_total) ==
  IF final_data # <<>>
  THEN IF final_invalid(final_total, Len(final_data)) THEN None ELSE final_data
  ELSE None

(***************************************************************************)
(* State                                                                   *)
(***************************************************************************)
VARIABLES
  \* one call of screenshot_utils.extract_hero_data(image)
  image,        \* the OCR outputs of the image under every preset
  state,        \* NOT_STARTED, PRIMARY_DONE, RETRY_NEEDED, SECONDARY_DONE,
                \* ACCEPTED, REJECTED
  primary,      \* (primary_data, primary_total, primary_heroes) or None
  secondary,    \* (secondary_data, secondary_total, secondary_heroes) or None
  final_data,   \* final_data, None before it is assigned
  final_total,  \* final_total as <<n>>, None before it is assigned
  returned,     \* the value returned: a participant list or None
  passes,       \* the calls of attempt_extraction so far, by settings name
  \* one call of screenshot_utils.recognize_hero(region)
  h_texts,      \* the OCR output of the region under each hero preset
  h_pc,         \* "loop" or "done"
  h_k,          \* the index of the next attempt
  h_ocr,        \* the attempts whose OCR has run, in order
  h_results,    \* results: the failed attempts (name, text, hero)
  h_ret,        \* the value returned, "pending" before the return
  \* the calls of ReadScreenshot.process_screenshots(progress_callback)
  zone,             \* config.LOCAL_TIMEZONE
  folder,           \* the names of the files in config.SOURCE_FOLDER
  extracted,        \* the names of the files in its 'extracted' folder
  db,               \* the database: created, the rows of matches and of
                    \* match_heroes, the AUTOINCREMENT sequence of each
  b_pc,             \* "idle", "loop" or "returned"
  calls,            \* the number of calls made so far
  has_callback,     \* whether the call has a progress_callback
  file_list,        \* file_list
  index,            \* the position of the next file of file_list, from 1
  processed_files,  \* processed_files
  skipped_files,    \* skipped_files
  error_files,      \* error_files
  stats,            \* the dict returned, None before the return
  log,              \* what the call has done so far
  \* engine invocations of a worker pool, one image each
  workers,          \* the local variables of each invocation
  \* one call of an extractor of screenshot_utils
  call              \* the function, its arguments and what it returned

engine_vars ==
  <<image, state, primary, secondary, final_data, final_total, returned, passes>>

hero_vars == <<h_texts, h_pc, h_k, h_ocr, h_results, h_ret>>

batch_vars ==
  <<zone, folder, extracted, db, b_pc, calls, has_callback, file_list, index,
    processed_files, skipped_files, error_files, stats, log>>

pool_vars == <<workers>>

call_vars == <<call>>

vars == <<engine_vars, hero_vars, batch_vars, pool_vars, call_vars>>

Terminal == {"ACCEPTED", "REJECTED"}

EngineIdle ==
  /\ image = None
  /\ state = "NOT_STARTED"
  /\ primary = None
  /\ secondary = None
  /\ final_data = None
  /\ final_total = None
  /\ returned = None
  /\ passes = <<>>

HeroIdle ==
  /\ h_texts = None
  /\ h_pc = "done"
  /\ h_k = 1
  /\ h_ocr = <<>>
  /\ h_results = <<>>
  /\ h_ret = "pending"

\* no effect of a call: nothing opened, saved, moved or reported
EmptyLog ==
  [preflight |-> 0, init_database |-> 0, opened |-> <<>>, saved |-> <<>>,
   moved |-> <<>>, progress |-> <<>>]

EmptyDatabase ==
  [created |-> FALSE, matches |-> <<>>, match_heroes |-> <<>>,
   match_seq |-> 0, hero_seq |-> 0]

BatchIdle ==
  /\ zone = None
  /\ folder = {}
  /\ extracted = {}
  /\ db = EmptyDatabase
  /\ b_pc = "idle"
  /\ calls = 0
  /\ has_callback = FALSE
  /\ file_list = <<>>
  /\ index = 1
  /\ processed_files = 0
  /\ skipped_files = 0
  /\ error_files = 0
  /\ stats = None
  /\ log = EmptyLog

PoolIdle == workers = <<>>

CallIdle == call = None

(***************************************************************************)
(* extract_hero_data as the state machine of its steps                     *)
(***************************************************************************)
InitEngine ==
  /\ \E h1 \in HeroTextChoices(1), h2 \in HeroTextChoices(2),
        h3 \in HeroTextChoices(3),
        p1 \in PercTextChoices(1, "Primary"),
        p2 \in PercTextChoices(2, "Primary"),
        p3 \in PercTextChoices(3, "Primary"),
        s1 \in PercTextChoices(1, "Secondary"),
        s2 \in PercTextChoices(2, "Secondary"),
        s3 \in PercTextChoices(3, "Secondary") :
       image = MakeImage(<<h1, h2, h3>>, <<p1, p2, p3>>, <<s1, s2, s3>>)
  /\ state = "NOT_STARTED"
  /\ primary = None
  /\ secondary = None
  /\ final_data = None
  /\ final_total = None
  /\ returned = None
  /\ passes = <<>>
  /\ HeroIdle
  /\ BatchIdle
  /\ PoolIdle
  /\ CallIdle

\* primary_data, primary_total, primary_heroes = attempt_extraction("Primary", ...)
PrimaryAttempt ==
  /\ state = "NOT_STARTED"
  /\ primary' = attempt_extraction(image, "Primary")
  /\ passes' = Append(passes, "Primary")
  /\ state' = "PRIMARY_DONE"
  /\ UNCHANGED <<image, secondary, final_data, final_total, returned, hero_vars, batch_vars, pool_vars, call_vars>>

\* needs_retry = True
RetryNeeded ==
  /\ state = "PRIMARY_DONE"
  /\ needs_retry(primary.total, primary.heroes)
  /\ state' = "RETRY_NEEDED"
  /\ UNCHANGED <<image, primary, secondary, final_data, final_total, returned,
                 passes, hero_vars, batch_vars, pool_vars, call_vars>>

\* a variant of SecondaryAttempt that repeats the pass with the primary settings
SecondaryAttemptPrimarySettings ==
  /\ state = "RETRY_NEEDED"
  /\ secondary' = attempt_extraction(image, "Primary")
  /\ passes' = Append(passes, "Primary")
  /\ state' = "SECONDARY_DONE"
  /\ UNCHANGED <<image, primary, final_data, final_total, returned, hero_vars, batch_vars, pool_vars, call_vars>>

\* secondary_data, ... = attempt_extraction("Secondary", ...)
SecondaryAttempt ==
  /\ state = "RETRY_NEEDED"
  /\ secondary' = attempt_extraction(image, "Secondary")
  /\ passes' = Append(passes, "Secondary")
  /\ state' = "SECONDARY_DONE"
  /\ UNCHANGED <<image, primary, final_data, final_total, returned, hero_vars, batch_vars, pool_vars, call_vars>>

\* the result handed to final validation and the value returned for it
Finish(chosen) ==
  /\ state' = IF validated(chosen.hero_data, chosen.total) = None
              THEN "REJECTED" ELSE "ACCEPTED"
  /\ final_data' = chosen.hero_data
  /\ final_total' = <<chosen.total>>
  /\ returned' = validated(chosen.hero_data, chosen.total)
  /\ UNCHANGED <<image, primary, secondary, passes, hero_vars, batch_vars, pool_vars, call_vars>>

\* no retry: final_data, final_total = primary_data, primary_total
ValidatePrimary ==
  /\ state = "PRIMARY_DONE"
  /\ ~needs_retry(primary.total, primary.heroes)
  /\ Finish(primary)

\* after the retry: choose the better result, then final validation
ChooseAndValidate ==
  /\ state = "SECONDARY_DONE"
  /\ Finish(IF use_secondary(primary, secondary) THEN secondary ELSE primary)

NextEngine ==
  \/ PrimaryAttempt
  \/ RetryNeeded
  \/ SecondaryAttempt
  \/ ValidatePrimary
  \/ ChooseAndValidate

SpecEngine == InitEngine /\ [][NextEngine]_vars

\* the function runs to its return: every enabled step is eventually taken
SpecEngineFair == SpecEngine /\ WF_vars(NextEngine)

(***************************************************************************)
(* recognize_hero as the loop over its attempts                            *)
(***************************************************************************)
InitHero ==
  /\ h_texts \in [1..Len(HERO_ATTEMPTS) -> SampleHeroTexts]
  /\ h_pc = "loop"
  /\ h_k = 1
  /\ h_ocr = <<>>
  /\ h_results = <<>>
  /\ h_ret = "pending"
  /\ EngineIdle
  /\ BatchIdle
  /\ PoolIdle
  /\ CallIdle

\* a variant of HeroAttempt without the early return: the loop goes on after
\* a name is found
HeroAttemptNoEarlyReturn ==
  /\ h_pc = "loop"
  /\ h_k <= Len(HERO_ATTEMPTS)
  /\ LET text == HeroOcrText(h_texts, h_k)
         hero == hero_of_text(text)
     IN  /\ h_ocr' = Append(h_ocr, HERO_ATTEMPTS[h_k])
         /\ IF hero # None
            THEN /\ h_ret' = hero
                 /\ h_pc' = IF h_k = Len(HERO_ATTEMPTS) THEN "done" ELSE "loop"
                 /\ h_k' = h_k + 1
                 /\ UNCHANGED h_results
            ELSE /\ h_results' = Append(h_results, <<HERO_ATTEMPTS[h_k], text, hero>>)
                 /\ h_k' = h_k + 1
                 /\ UNCHANGED <<h_ret, h_pc>>
  /\ UNCHANGED <<h_texts, engine_vars, batch_vars, pool_vars, call_vars>>

\* one iteration: preprocess, OCR, clean; return the name if there is one
HeroAttempt ==
  /\ h_pc = "loop"
  /\ h_k <= Len(HERO_ATTEMPTS)
  /\ LET text == HeroOcrText(h_texts, h_k)
         hero == hero_of_text(text)
     IN  /\ h_ocr' = Append(h_ocr, HERO_ATTEMPTS[h_k])
         /\ IF hero # None
            THEN /\ h_ret' = hero
                 /\ h_pc' = "done"
                 /\ UNCHANGED <<h_k, h_results>>
            ELSE /\ h_results' = Append(h_results, <<HERO_ATTEMPTS[h_k], text, hero>>)
                 /\ h_k' = h_k + 1
                 /\ UNCHANGED <<h_ret, h_pc>>
  /\ UNCHANGED <<h_texts, engine_vars, batch_vars, pool_vars, call_vars>>

\* the loop is over: return None
HeroNotRecognized ==
  /\ h_pc = "loop"
  /\ h_k > Len(HERO_ATTEMPTS)
  /\ h_ret' = None
  /\ h_pc' = "done"
  /\ UNCHANGED <<h_texts, h_k, h_ocr, h_results, engine_vars, batch_vars, pool_vars, call_vars>>

NextHero == HeroAttempt \/ HeroNotRecognized

SpecHero == InitHero /\ [][NextHero]_vars

(***************************************************************************)
(* map_categories.py                                                       *)
(***************************************************************************)
\* OVERWATCH_MAPS, in catalogue order, each name a sequence of characters
OVERWATCH_MAPS ==
  <<
    <<"B","l","i","z","z","a","r","d"," ","W","o","r","l","d">>,
    <<"E","i","c","h","e","n","w","a","l","d","e">>,
    <<"H","o","l","l","y","w","o","o","d">>,
    <<"K","i","n","g","'","s"," ","R","o","w">>,
    <<"M","i","d","t","o","w","n">>,
    <<"N","u","m","b","a","n","i">>,
    <<"P","a","r","a","í","s","o">>,
    <<"C","i","r","c","u","i","t"," ","R","o","y","a","l">>,
    <<"D","o","r","a","d","o">>,
    <<"H","a","v","a","n","a">>,
    <<"J","u","n","k","e","r","t","o","w","n">>,
    <<"R","i","a","l","t","o">>,
    <<"R","o","u","t","e"," ","6","6">>,
    <<"S","h","a","m","b","a","l","i"," ","M","o","n","a","s","t","e","r","y">>,
    <<"W","a","t","c","h","p","o","i","n","t",":"," ","G","i","b","r","a","l","t","a","r">>,
    <<"A","n","t","a","r","c","t","i","c"," ","P","e","n","i","n","s","u","l","a">>,
    <<"B","u","s","a","n">>,
    <<"I","l","i","o","s">>,
    <<"L","i","j","i","a","n","g"," ","T","o","w","e","r">>,
    <<"N","e","p","a","l">>,
    <<"O","a","s","i","s">>,
    <<"S","a","m","o","a">>,
    <<"C","o","l","o","s","s","e","o">>,
    <<"E","s","p","e","r","a","n","ç","a">>,
    <<"N","e","w"," ","Q","u","e","e","n"," ","S","t","r","e","e","t">>,
    <<"N","e","w"," ","J","u","n","k"," ","C","i","t","y">>,
    <<"S","u","r","a","v","a","s","a">>,
    <<"R","u","n","a","s","a","p","i">>,
    <<"A","a","t","l","i","s">>
  >>

\* MAP_CORRECTIONS, the pairs <<misread key, canonical name>> in table order
MAP_CORRECTIONS ==
  <<
    <<<<"E","S","P","E","R","A","N","G","A">>, <<"E","s","p","e","r","a","n","ç","a">>>>,
    <<<<"P","A","R","A","I","S","O">>, <<"P","a","r","a","í","s","o">>>>,
    <<<<"J","U","N","K","E","R","T","O","W","N">>, <<"J","u","n","k","e","r","t","o","w","n">>>>,
    <<<<"N","U","M","B","A","N","1">>, <<"N","u","m","b","a","n","i">>>>,
    <<<<"N","U","M","B","A","N",")">>, <<"N","u","m","b","a","n","i">>>>,
    <<<<"K","I","N","G"," ","R","O","W">>, <<"K","i","n","g","'","s"," ","R","o","w">>>>,
    <<<<"W","A","T","C","H","P","O","I","N","T">>, <<"W","a","t","c","h","p","o","i","n","t",":"," ","G","i","b","r","a","l","t","a","r">>>>
  >>

(***************************************************************************)
(* ReadScreenshot.py: the extractors of the whole-frame text.  An optional *)
(* int is None or the one-element tuple <<n>>, so that 0 is not None.      *)
(***************************************************************************)
\* the position after the longest run of \s from position i
RECURSIVE SkipWhitespace(_, _)
SkipWhitespace(text, i) ==
  IF i <= Len(text) /\ text[i] \in WHITESPACE
  THEN SkipWhitespace(text, i + 1) ELSE i

\* the position after the longest run of \d from position i
RECURSIVE DigitsEnd(_, _)
DigitsEnd(text, i) ==
  IF i <= Len(text) /\ IsDigit(text[i]) THEN DigitsEnd(text, i + 1) ELSE i

CharAt(text, i, c) == i <= Len(text) /\ text[i] = c

\* the int of the run of digits that starts at position j
IntAt(text, j) == ParseInt(SubSeq(text, j, DigitsEnd(text, j) - 1))

\* re.search: the least position at which the pattern matches, 0 if none
FirstMatch(text, MatchAt(_)) ==
  IF \E i \in 1..Len(text) : MatchAt(i)
  THEN CHOOSE i \in 1..Len(text) : MatchAt(i) /\ \A j \in 1..(i - 1) : ~MatchAt(j)
  ELSE 0

GAME_LENGTH_LABEL == <<"G","A","M","E"," ","L","E","N","G","T","H",":">>

\* (\d+:\d+) matches at position j
MinSecAt(text, j) ==
  LET k == DigitsEnd(text, j)
  IN  k > j /\ CharAt(text, k, ":") /\ DigitsEnd(text, k + 1) > k + 1

\* r"GAME LENGTH:\s*(\d+:\d+)" matches at position i
GameLengthAt(text, i) ==
  /\ StartsWithAt(text, i, GAME_LENGTH_LABEL)
  /\ MinSecAt(text, SkipWhitespace(text, i + Len(GAME_LENGTH_LABEL)))

\* mins, secs = map(int, group.split(':')); mins * 60 + secs
MinSecValue(text, j) ==
  IntAt(text, j) * 60 + IntAt(text, DigitsEnd(text, j) + 1)

GameLengthOfMatch(text, i) ==
  IF i = 0 THEN None
  ELSE << MinSecValue(text, SkipWhitespace(text, i + Len(GAME_LENGTH_LABEL))) >>

\* ReadScreenshot.extract_game_length(text)
rs_extract_game_length(text) ==
  GameLengthOfMatch(text, FirstMatch(text, LAMBDA i : GameLengthAt(text, i)))

RESULT_WORDS ==
  << <<"V","I","C","T","O","R","Y">>, <<"D","E","F","E","A","T">>,
     <<"D","R","A","W">> >>

FINAL_SCORE_LABEL == <<"F","I","N","A","L"," ","S","C","O","R","E",":">>

VS_LABEL == <<"V","S">>

\* pat matches at position i of text under re.IGNORECASE
StartsWithAtIgnoreCase(text, i, pat) ==
  /\ i >= 1
  /\ i + Len(pat) - 1 <= Len(text)
  /\ \A k \in 1..Len(pat) : IgnoreCaseEq(text[i + k - 1], pat[k])

\* r"(VICTORY|DEFEAT|DRAW)" matches at position i
ResultWordAt(text, i) ==
  \E w \in DOMAIN RESULT_WORDS : StartsWithAtIgnoreCase(text, i, RESULT_WORDS[w])

\* result_match.group(1).upper() for the match at position i
ResultWordOfMatch(text, i) ==
  LET w == CHOOSE v \in DOMAIN RESULT_WORDS :
             StartsWithAtIgnoreCase(text, i, RESULT_WORDS[v])
  IN  StrUpper(SubSeq(text, i, i + Len(RESULT_WORDS[w]) - 1))

\* the position of the second group of r"(\d+)\s*VS\s*(\d+)" when it matches
\* at position j, 0 when it does not
EnemyScorePos(text, j) ==
  LET k == DigitsEnd(text, j)
      v == SkipWhitespace(text, k)
      e == SkipWhitespace(text, v + Len(VS_LABEL))
  IN  IF /\ k > j
         /\ StartsWithAtIgnoreCase(text, v, VS_LABEL)
         /\ e <= Len(text)
         /\ IsDigit(text[e])
      THEN e ELSE 0

\* r"FINAL SCORE:\s*(\d+)\s*VS\s*(\d+)" matches at position i
FinalScoreAt(text, i) ==
  /\ StartsWithAtIgnoreCase(text, i, FINAL_SCORE_LABEL)
  /\ EnemyScorePos(text, SkipWhitespace(text, i + Len(FINAL_SCORE_LABEL))) # 0

\* "VICTORY" if your_score > enemy_score else "DEFEAT" if < else "DRAW"
ScoreResult(your_score, enemy_score) ==
  IF your_score > enemy_score THEN RESULT_WORDS[1]
  ELSE IF your_score < enemy_score THEN RESULT_WORDS[2]
  ELSE RESULT_WORDS[3]

FinalScoreOfMatch(text, i) ==
  IF i = 0 THEN None
  ELSE LET j == SkipWhitespace(text, i + Len(FINAL_SCORE_LABEL))
       IN  ScoreResult(IntAt(text, j), IntAt(text, EnemyScorePos(text, j)))

ResultOfMatches(text, i) ==
  IF i # 0 THEN ResultWordOfMatch(text, i)
  ELSE FinalScoreOfMatch(text, FirstMatch(text, LAMBDA k : FinalScoreAt(text, k)))

\* the two searches of determine_result
ResultOfText(text) ==
  ResultOfMatches(text, FirstMatch(text, LAMBDA i : ResultWordAt(text, i)))

\* ReadScreenshot.determine_result(text)
rs_determine_result(text) == ResultOfText(text)

\* screenshot_utils.determine_result(text)
determine_result(text) == ResultOfText(text)

(***************************************************************************)
(* datetime: a naive datetime is [year, month, day, hour, minute]          *)
(***************************************************************************)
IsLeap(year) == year % 4 = 0 /\ (year % 100 # 0 \/ year % 400 = 0)

DaysInMonth(year, month) ==
  IF month = 2 THEN (IF IsLeap(year) THEN 29 ELSE 28)
  ELSE IF month \in {4, 6, 9, 11} THEN 30 ELSE 31

\* the days of the months of the year before the given month
RECURSIVE DaysBeforeMonth(_, _)
DaysBeforeMonth(year, month) ==
  IF month = 1 THEN 0
  ELSE DaysBeforeMonth(year, month - 1) + DaysInMonth(year, month - 1)

\* the days of the years before the given year
DaysBeforeYear(year) ==
  (year - 1) * 365 + (year - 1) \div 4 - (year - 1) \div 100 + (year - 1) \div 400

\* date.toordinal(): 1 for 0001-01-01
ToOrdinal(year, month, day) ==
  DaysBeforeYear(year) + DaysBeforeMonth(year, month) + day

\* the minutes since 0001-01-01 00:00
ToMinutes(dt) ==
  ((ToOrdinal(dt.year, dt.month, dt.day) - 1) * 24 + dt.hour) * 60 + dt.minute

\* the year of the day with the given ordinal, searched near an estimate
YearOfOrdinal(ordinal) ==
  CHOOSE year \in ((ordinal \div 366) - 1)..((ordinal \div 365) + 1) :
    /\ year >= 1
    /\ DaysBeforeYear(year) < ordinal
    /\ ordinal <= DaysBeforeYear(year + 1)

MonthOfDay(year, day_of_year) ==
  CHOOSE month \in 1..12 :
    /\ DaysBeforeMonth(year, month) < day_of_year
    /\ day_of_year <= DaysBeforeMonth(year, month) + DaysInMonth(year, month)

DateOfYearDay(year, day_of_year, month, minute_of_day) ==
  [year |-> year, month |-> month,
   day |-> day_of_year - DaysBeforeMonth(year, month),
   hour |-> minute_of_day \div 60, minute |-> minute_of_day % 60]

DateOfOrdinal(ordinal, year, minute_of_day) ==
  DateOfYearDay(year, ordinal - DaysBeforeYear(year),
                MonthOfDay(year, ordinal - DaysBeforeYear(year)), minute_of_day)

\* the naive datetime of the minutes since 0001-01-01 00:00
FromMinutes(minutes) ==
  DateOfOrdinal(minutes \div 1440 + 1, YearOfOrdinal(minutes \div 1440 + 1),
                minutes % 1440)

\* date.weekday() of an ordinal: 0 Monday ... 6 Sunday
Weekday(ordinal) == (ordinal + 6) % 7

\* the day of the last Sunday of the month
LastSunday(year, month) ==
  CHOOSE day \in (DaysInMonth(year, month) - 6)..DaysInMonth(year, month) :
    Weekday(ToOrdinal(year, month, day)) = 6

Digits2(n) == <<DIGITS[((n \div 10) % 10) + 1], DIGITS[(n % 10) + 1]>>

Digits4(n) == Digits2(n \div 100) \o Digits2(n % 100)

\* strftime(DATE_OUTPUT_FORMAT), '%Y-%m-%d %H:%M'
FormatOutput(dt) ==
  Digits4(dt.year) \o <<"-">> \o Digits2(dt.month) \o <<"-">> \o Digits2(dt.day)
    \o <<" ">> \o Digits2(dt.hour) \o <<":">> \o Digits2(dt.minute)

\* the field values are a date and a time of day
ValidDateTime(dt) ==
  /\ dt.year \in 1..9999
  /\ dt.month \in 1..12
  /\ dt.day \in 1..DaysInMonth(dt.year, dt.month)
  /\ dt.hour \in 0..23
  /\ dt.minute \in 0..59

\* %y: 69..99 are 1969..1999, 0..68 are 2000..2068
CenturyYear(yy) == IF yy <= 68 THEN 2000 + yy ELSE 1900 + yy

\* two digits at position i
TwoDigitsAt(text, i) ==
  /\ i + 1 <= Len(text)
  /\ IsDigit(text[i])
  /\ IsDigit(text[i + 1])

Int2At(text, i) == ParseInt(SubSeq(text, i, i + 1))

DATE_LABEL == <<"D","A","T","E",":">>

\* (\d{2}/\d{2}/\d{2}) matches at position j
DateGroupAt(text, j) ==
  /\ TwoDigitsAt(text, j)
  /\ CharAt(text, j + 2, "/")
  /\ TwoDigitsAt(text, j + 3)
  /\ CharAt(text, j + 5, "/")
  /\ TwoDigitsAt(text, j + 6)

\* (\d{2}:\d{2}) matches at position t
TimeGroupAt(text, t) ==
  /\ TwoDigitsAt(text, t)
  /\ CharAt(text, t + 2, ":")
  /\ TwoDigitsAt(text, t + 3)

\* the position of the time group of \s*-\s*(\d{2}:\d{2}) matched from
\* position d, 0 if it does not match
TimeGroupPos(text, d) ==
  LET h == SkipWhitespace(text, d)
      t == SkipWhitespace(text, h + 1)
  IN  IF CharAt(text, h, "-") /\ TimeGroupAt(text, t) THEN t ELSE 0

\* r"DATE:\s*(\d{2}/\d{2}/\d{2})\s*-\s*(\d{2}:\d{2})" matches at position i
DateAt(text, i) ==
  /\ StartsWithAt(text, i, DATE_LABEL)
  /\ DateGroupAt(text, SkipWhitespace(text, i + Len(DATE_LABEL)))
  /\ TimeGroupPos(text, SkipWhitespace(text, i + Len(DATE_LABEL)) + 8) # 0

\* datetime.strptime(f"{group(1)} {group(2)}", DATE_INPUT_FORMAT),
\* '%m/%d/%y %H:%M', before its range checks
InputFields(text, j, t) ==
  [year |-> CenturyYear(Int2At(text, j + 6)), month |-> Int2At(text, j),
   day |-> Int2At(text, j + 3), hour |-> Int2At(text, t),
   minute |-> Int2At(text, t + 3)]

\* a variant of FormatIfValid that formats the fields whatever their values
FormatUnchecked(dt) == FormatOutput(dt)

\* except ValueError: return None
FormatIfValid(dt) == IF ValidDateTime(dt) THEN FormatOutput(dt) ELSE None

DateTimeOfMatch(text, i) ==
  IF i = 0 THEN None
  ELSE LET j == SkipWhitespace(text, i + Len(DATE_LABEL))
       IN  FormatIfValid(InputFields(text, j, TimeGroupPos(text, j + 8)))

\* ReadScreenshot.extract_datetime(text)
rs_extract_datetime(text) ==
  DateTimeOfMatch(text, FirstMatch(text, LAMBDA i : DateAt(text, i)))

\* screenshot_utils.extract_datetime(text, DATE_INPUT_FORMAT,
\* DATE_OUTPUT_FORMAT), the formats being those of config.py
extract_datetime(text) ==
  DateTimeOfMatch(text, FirstMatch(text, LAMBDA i : DateAt(text, i)))

\* datetime.strptime(date, DATE_OUTPUT_FORMAT) of a 'YYYY-MM-DD HH:MM' text:
\* the shape of the text. strptime also reads fields the text gives with fewer
\* digits ('2025-6-26 3:00'); extract_datetime's strftime pads every field, so
\* save_match is handed padded texts only and these are the ones told apart here.
OutputShape(date) ==
  /\ Len(date) = 16
  /\ TwoDigitsAt(date, 1) /\ TwoDigitsAt(date, 3) /\ date[5] = "-"
  /\ TwoDigitsAt(date, 6) /\ date[8] = "-"
  /\ TwoDigitsAt(date, 9) /\ date[11] = " "
  /\ TwoDigitsAt(date, 12) /\ date[14] = ":"
  /\ TwoDigitsAt(date, 15)

OutputFields(date) ==
  [year |-> ParseInt(SubSeq(date, 1, 4)), month |-> Int2At(date, 6),
   day |-> Int2At(date, 9), hour |-> Int2At(date, 12),
   minute |-> Int2At(date, 15)]

\* strptime(date, DATE_OUTPUT_FORMAT) raises ValueError
OutputValueError(date) ==
  ~OutputShape(date) \/ ~ValidDateTime(OutputFields(date))

(***************************************************************************)
(* config.py: LOCAL_TIMEZONE and local_to_utc.  A zone is                  *)
(* [std : minutes east of UTC, dst : BOOLEAN]; a zone with dst observes    *)
(* summer time, one hour ahead, from the last Sunday of March to the last  *)
(* Sunday of October (the European rule, switching at 01:00 UTC).          *)
(***************************************************************************)
ZoneUTC == [std |-> 0, dst |-> FALSE]

ZoneBerlin == [std |-> 60, dst |-> TRUE]

\* the minutes of a wall-clock day and time
WallMinutes(year, month, day, hour) ==
  ((ToOrdinal(year, month, day) - 1) * 24 + hour) * 60

\* summer time holds at the wall-clock time dt read with fold = 0: from
\* standard 01:00 UTC + std + 1 h on the March day (a time in the gap is
\* read with the offset before it) up to the same wall time in October
InSummerTime(tz, dt) ==
  /\ tz.dst
  /\ ToMinutes(dt) >= WallMinutes(dt.year, 3, LastSunday(dt.year, 3), 0)
                        + 60 + tz.std + 60
  /\ ToMinutes(dt) < WallMinutes(dt.year, 10, LastSunday(dt.year, 10), 0)
                       + 60 + tz.std + 60

\* tzinfo.utcoffset(dt), in minutes
utcoffset(tz, dt) ==
  IF InSummerTime(tz, dt) THEN tz.std + 60 ELSE tz.std

\* config.local_to_utc(local_dt) for a naive local_dt
local_to_utc(tz, local_dt) ==
  FromMinutes(ToMinutes(local_dt) - utcoffset(tz, local_dt))

(***************************************************************************)
(* ReadScreenshot.extract_map_name                                         *)
(***************************************************************************)
\* sub in s
Contains(s, sub) == \E i \in 1..(Len(s) + 1) : StartsWithAt(s, i, sub)

\* the first element of a sequence that satisfies Test, None if there is none
FirstThat(seq, Test(_)) ==
  IF \E i \in DOMAIN seq : Test(seq[i])
  THEN seq[CHOOSE i \in DOMAIN seq :
             Test(seq[i]) /\ \A j \in 1..(i - 1) : ~Test(seq[j])]
  ELSE None

\* text in MAP_CORRECTIONS
InMapCorrections(text) ==
  \E i \in DOMAIN MAP_CORRECTIONS : MAP_CORRECTIONS[i][1] = text

\* MAP_CORRECTIONS[text]
MapCorrection(text) ==
  MAP_CORRECTIONS[CHOOSE i \in DOMAIN MAP_CORRECTIONS :
                    MAP_CORRECTIONS[i][1] = text][2]

\* for map_name in OVERWATCH_MAPS:
\*     if map_name.upper() in text or text in map_name.upper(): return map_name
\* return None
MapByContainment(text) ==
  FirstThat(OVERWATCH_MAPS,
            LAMBDA map_name : \/ Contains(text, StrUpper(map_name))
                              \/ Contains(StrUpper(map_name), text))

\* a variant of MapByCorrection that goes to the containment loop without
\* looking into MAP_CORRECTIONS
MapByContainmentOnly(text) == MapByContainment(text)

MapByCorrection(text) ==
  IF InMapCorrections(text) THEN MapCorrection(text) ELSE MapByContainment(text)

MapOfExact(text, exact) ==
  IF exact # None THEN exact ELSE MapByCorrection(text)

\* the resolution of the stripped, upper-cased text of the map region
MapOfUpper(text) ==
  MapOfExact(text, FirstThat(OVERWATCH_MAPS,
                             LAMBDA map_name : StrUpper(map_name) = text))

\* ReadScreenshot.extract_map_name(image), map_text the OCR text of the map
\* region
rs_extract_map_name(map_text) == MapOfUpper(StrUpper(Strip(map_text)))

(***************************************************************************)
(* ReadScreenshot.py: recognize_hero and extract_hero_data                 *)
(***************************************************************************)
RS_PERCENTAGE_MIN == 98

RS_PERCENTAGE_MAX == 102

\* ReadScreenshot.recognize_hero: the attempts, in order
RS_HERO_ATTEMPTS == <<"Primary", "Secondary">>

\* ReadScreenshot.clean_hero_name(text): the code of
\* screenshot_utils.clean_hero_name over the tables of heros.py
rs_clean_hero_name(text) == hero_of_text(text)

\* the second attempt of ReadScreenshot.recognize_hero
rs_recognize_hero_second(texts) ==
  IF rs_clean_hero_name(Strip(texts[2])) # None
  THEN rs_clean_hero_name(Strip(texts[2])) ELSE None

\* ReadScreenshot.recognize_hero(region, filename, region_name)
rs_recognize_hero(texts) ==
  IF rs_clean_hero_name(Strip(texts[1])) # None
  THEN rs_clean_hero_name(Strip(texts[1]))
  ELSE rs_recognize_hero_second(texts)

\* one iteration of the loop of _extract_hero_data_attempt for slot i
rs_attempt_slot(img, settings, i, acc) ==
  LET hero_name == rs_recognize_hero(img.hero[i])
      percentage == percentage_of_text(Strip(img.perc[i][settings]))
  IN  IF hero_name = None THEN acc
      ELSE IF percentage > 0
      THEN [hero_data |-> Append(acc.hero_data,
                                 [hero |-> hero_name, percentage |-> percentage]),
            total_percentage |-> acc.total_percentage + percentage,
            num_heroes |-> acc.num_heroes + 1]
      ELSE acc

RECURSIVE rs_attempt_loop(_, _, _, _)
rs_attempt_loop(img, settings, i, acc) ==
  IF i > NUM_SLOTS THEN acc
  ELSE rs_attempt_loop(img, settings, i + 1, rs_attempt_slot(img, settings, i, acc))

\* ReadScreenshot._extract_hero_data_attempt(image, filename, regions, settings)
rs_extract_hero_data_attempt(img, settings) ==
  rs_attempt_loop(img, settings, 1,
                  [hero_data |-> <<>>, total_percentage |-> 0, num_heroes |-> 0])

\* a variant of rs_needs_retry whose lower bound is inclusive
rs_needs_retry_inclusive_min(r) ==
  /\ r.num_heroes > 0
  /\ \/ r.total_percentage > RS_PERCENTAGE_MAX
     \/ r.num_heroes <= 2 /\ r.total_percentage <= RS_PERCENTAGE_MIN

\* needs_retry of ReadScreenshot.extract_hero_data
rs_needs_retry(r) ==
  /\ r.num_heroes > 0
  /\ \/ r.total_percentage > RS_PERCENTAGE_MAX
     \/ r.num_heroes <= 2 /\ r.total_percentage < RS_PERCENTAGE_MIN

\* a variant of rs_better that also takes the secondary result on a tie
rs_better_on_tie(primary_result, secondary_result) ==
  IF secondary_result.num_heroes > primary_result.num_heroes
  THEN secondary_result
  ELSE IF /\ secondary_result.num_heroes = primary_result.num_heroes
          /\ Abs(secondary_result.total_percentage - 100)
               <= Abs(primary_result.total_percentage - 100)
  THEN [primary_result EXCEPT !.hero_data = secondary_result.hero_data,
                              !.total_percentage = secondary_result.total_percentage]
  ELSE primary_result

\* "Use whichever result is better"
rs_better(primary_result, secondary_result) ==
  IF secondary_result.num_heroes > primary_result.num_heroes
  THEN secondary_result
  ELSE IF /\ secondary_result.num_heroes = primary_result.num_heroes
          /\ Abs(secondary_result.total_percentage - 100)
               < Abs(primary_result.total_percentage - 100)
  THEN [primary_result EXCEPT !.hero_data = secondary_result.hero_data,
                              !.total_percentage = secondary_result.total_percentage]
  ELSE primary_result

\* "Final validation (only if we have at least one valid hero)"
rs_final_validation(r) ==
  IF r.num_heroes > 0
  THEN IF \/ r.total_percentage > RS_PERCENTAGE_MAX
          \/ r.num_heroes <= 2 /\ r.total_percentage < RS_PERCENTAGE_MIN
       THEN None
       ELSE r.hero_data
  ELSE None

rs_after_primary(img, primary_result) ==
  IF rs_needs_retry(primary_result)
  THEN rs_final_validation(
         rs_better(primary_result, rs_extract_hero_data_attempt(img, "Secondary")))
  ELSE rs_final_validation(primary_result)

\* ReadScreenshot.extract_hero_data(image, filename)
rs_extract_hero_data(img) ==
  rs_after_primary(img, rs_extract_hero_data_attempt(img, "Primary"))

(***************************************************************************)
(* Sample screenshots.  A screenshot file is                               *)
(*   [kind, text, map_text, hero],                                         *)
(* kind "image" for a file Image.open reads, "corrupt" for one it raises   *)
(* on and "ocr_error" for one whose whole-frame OCR raises; text is the    *)
(* whole-frame OCR text, map_text the OCR text of the map region and hero  *)
(* the OCR outputs of the hero regions.                                    *)
(***************************************************************************)
LineVictory == <<"V","I","C","T","O","R","Y","\n">>

LineDefeat == <<"D","E","F","E","A","T","\n">>

LineDate ==
  <<"D","A","T","E",":"," ","0","6","/","2","6","/","2","5"," ","-"," ",
    "0","3",":","0","0","\n">>

LineBadDate ==
  <<"D","A","T","E",":"," ","1","3","/","2","6","/","2","5"," ","-"," ",
    "0","3",":","0","0","\n">>

LineLength == <<"G","A","M","E"," ","L","E","N","G","T","H",":"," ","1","0",":","0","8">>

LineLengthZero == <<"G","A","M","E"," ","L","E","N","G","T","H",":"," ","0",":","0","0">>

MapBusan == <<"B","U","S","A","N","\n">>

MapNumban1 == <<"N","U","M","B","A","N","1">>

MapNoise == <<"X","Q","Z">>

NoHeroTexts == <<TxtEmpty, TxtEmpty, TxtEmpty>>

\* Sigma 100%
HeroesOne ==
  MakeImage(<<<<TxtSigma, TxtEmpty, TxtEmpty>>, NoHeroTexts, NoHeroTexts>>,
            <<P100, TxtEmpty, P0>>, <<P99, TxtEmpty, P0>>)

\* Sigma 103% and Zarya 1%, read as 99% and 1% by the secondary pass
HeroesRetry ==
  MakeImage(<<<<TxtSigma, TxtEmpty, TxtEmpty>>, <<TxtZar, TxtZaryg, TxtEmpty>>,
              NoHeroTexts>>,
            <<P103, P1, P0>>, <<P99, P1, P0>>)

\* Sigma 95% under both presets
HeroesInvalid ==
  MakeImage(<<<<TxtSigma, TxtEmpty, TxtEmpty>>, NoHeroTexts, NoHeroTexts>>,
            <<P95, TxtEmpty, P0>>, <<P95, TxtEmpty, P0>>)

ImageFile(text, map_text, hero) ==
  [kind |-> "image", text |-> text, map_text |-> map_text, hero |-> hero]

FaultyFile(kind) ==
  [kind |-> kind, text |-> <<>>, map_text |-> <<>>, hero |-> HeroesOne]

\* the sample files, by file name
SampleScreenshots ==
  [ good      |-> ImageFile(LineVictory \o LineDate \o LineLength, MapBusan, HeroesOne),
    again     |-> ImageFile(LineVictory \o LineDate \o LineLength, MapBusan, HeroesRetry),
    zero      |-> ImageFile(LineDefeat \o LineDate \o LineLengthZero, MapNumban1, HeroesOne),
    nolength  |-> ImageFile(LineVictory \o LineDate, MapBusan, HeroesOne),
    noresult  |-> ImageFile(LineDate \o LineLength, MapBusan, HeroesOne),
    nodate    |-> ImageFile(LineVictory \o LineBadDate \o LineLength, MapBusan, HeroesOne),
    nomap     |-> ImageFile(LineVictory \o LineDate \o LineLength, MapNoise, HeroesOne),
    noheroes  |-> ImageFile(LineVictory \o LineDate \o LineLength, MapBusan, HeroesInvalid),
    corrupt   |-> FaultyFile("corrupt"),
    ocrerror  |-> FaultyFile("ocr_error") ]

SampleNames == DOMAIN SampleScreenshots

LocalZones == {ZoneUTC, ZoneBerlin}

(***************************************************************************)
(* ReadScreenshot.process_screenshots: the extraction of one file          *)
(***************************************************************************)
\* lines 532-536: the five extraction results of an opened image
extract_fields(shot) ==
  [game_length_sec |-> rs_extract_game_length(shot.text),
   game_result     |-> rs_determine_result(shot.text),
   game_datetime   |-> rs_extract_datetime(shot.text),
   game_map        |-> rs_extract_map_name(shot.map_text),
   hero_data       |-> rs_extract_hero_data(shot.hero)]

\* the extraction results of the sample files, evaluated once
extractions == { <<name, extract_fields(SampleScreenshots[name])>> : name \in SampleNames }

fields_of(name) == (CHOOSE p \in extractions : p[1] = name)[2]

\* "Only proceed if all required fields are not None"
all_fields_present(f) ==
  /\ f.game_length_sec # None
  /\ f.game_result # None
  /\ f.game_datetime # None
  /\ f.game_map # None
  /\ f.hero_data # None

(***************************************************************************)
(* ReadScreenshot.init_database and save_match.  The column length_sec     *)
(* holds an optional int: NULL (None) or <<n>>.                            *)
(***************************************************************************)
\* CREATE TABLE IF NOT EXISTS matches ..., match_heroes ...
init_database(d) == [d EXCEPT !.created = TRUE]

\* CHECK(result IN ('VICTORY', 'DEFEAT', 'DRAW'))
ResultCheck(result) == \E w \in DOMAIN RESULT_WORDS : RESULT_WORDS[w] = result

\* a variant of MatchExists for a matches table without the UNIQUE constraint
MatchExistsNoConstraint(d, date, map_name, result, length_sec) == FALSE

\* UNIQUE(date, map, result, length_sec): a row with the key exists; a NULL
\* is distinct from every value
MatchExists(d, date, map_name, result, length_sec) ==
  \E r \in DOMAIN d.matches :
    /\ length_sec # None
    /\ d.matches[r].date = date
    /\ d.matches[r].map = map_name
    /\ d.matches[r].result = result
    /\ d.matches[r].length_sec = length_sec

\* UNIQUE(match_id, hero_name): a row with the key exists
HeroExists(rows, match_id, hero_name) ==
  \E r \in DOMAIN rows : rows[r].match_id = match_id /\ rows[r].hero_name = hero_name

\* INSERT OR IGNORE INTO match_heroes, once per entry of hero_data.  With
\* AUTOINCREMENT every INSERT takes the next id of the sequence, also when
\* the row is ignored.
RECURSIVE InsertHeroes(_, _, _)
InsertHeroes(d, match_id, hero_data) ==
  IF hero_data = <<>> THEN d
  ELSE InsertHeroes(
         [d EXCEPT
            !.hero_seq = d.hero_seq + 1,
            !.match_heroes =
               IF HeroExists(d.match_heroes, match_id, hero_data[1].hero) THEN @
               ELSE Append(@, [id |-> d.hero_seq + 1, match_id |-> match_id,
                               hero_name |-> hero_data[1].hero,
                               play_percentage |-> hero_data[1].percentage])],
         match_id, Tail(hero_data))

\* INSERT OR IGNORE INTO matches with rowcount 0: no row, one id used
IgnoredMatch(d) == [d EXCEPT !.match_seq = d.match_seq + 1]

\* INSERT OR IGNORE INTO matches with rowcount > 0, then the hero rows with
\* match_id = lastrowid
InsertMatch(d, date, map_name, result, length_sec, hero_data) ==
  InsertHeroes(
    [d EXCEPT
       !.match_seq = d.match_seq + 1,
       !.matches = Append(@, [id |-> d.match_seq + 1, date |-> date,
                              map |-> map_name, result |-> result,
                              length_sec |-> length_sec])],
    d.match_seq + 1, hero_data)

\* sum(hero['percentage'] for hero in hero_data)
RECURSIVE total_percentage_of(_)
total_percentage_of(hero_data) ==
  IF hero_data = <<>> THEN 0
  ELSE hero_data[1].percentage + total_percentage_of(Tail(hero_data))

\* utc_date_str of save_match
utc_date_str_of(tz, date) ==
  FormatOutput(local_to_utc(tz, OutputFields(date)))

\* strptime(date, DATE_OUTPUT_FORMAT) raises ValueError, for the timestamps
\* of the sample files as the pairs <<date, raised>>, evaluated once
output_value_errors ==
  { <<date, OutputValueError(date)>> :
      date \in {p[2].game_datetime : p \in extractions} \ {None} }

\* datetime.strptime(date, config.DATE_OUTPUT_FORMAT) of save_match raises
strptime_raises(date) ==
  IF \E p \in output_value_errors : p[1] = date
  THEN (CHOOSE p \in output_value_errors : p[1] = date)[2]
  ELSE OutputValueError(date)

\* the way save_match ends; db_ok is FALSE when sqlite3 raises an error (the
\* tables are missing, the file is locked).  INSERT OR IGNORE skips a row
\* that violates the CHECK or the UNIQUE constraint without an error:
\* rowcount is 0 and save_match returns False.
save_outcome(d, tz, date, map_name, result, length_sec, hero_data, db_ok) ==
  IF hero_data = <<>> THEN "no_hero_data"
  ELSE IF total_percentage_of(hero_data) > RS_PERCENTAGE_MAX THEN "invalid_total"
  ELSE IF strptime_raises(date) THEN "invalid_date"
  ELSE IF ~db_ok \/ ~d.created THEN "database_error"
  ELSE IF ~ResultCheck(result) THEN "check_ignored"
  ELSE IF MatchExists(d, utc_date_str_of(tz, date), map_name, result, length_sec)
  THEN "duplicate"
  ELSE "stored"

\* save_match(date, map_name, result, length_sec, hero_data): the value
\* returned
save_match(outcome) == outcome = "stored"

\* the database after save_match
save_match_db(d, tz, date, map_name, result, length_sec, hero_data, outcome) ==
  IF outcome = "stored"
  THEN InsertMatch(d, utc_date_str_of(tz, date), map_name, result, length_sec, hero_data)
  ELSE IF outcome \in {"duplicate", "check_ignored"} THEN IgnoredMatch(d)
  ELSE d

(***************************************************************************)
(* ReadScreenshot.process_screenshots as the state machine of its calls    *)
(***************************************************************************)
\* the most files in the source folder
MaxFiles == 2

\* the most calls of process_screenshots
MaxCalls == 2

\* source_folder.iterdir() lists the files in an order of its own
Listings(names) ==
  { order \in [1..Cardinality(names) -> names] :
      \A i, j \in 1..Cardinality(names) : order[i] = order[j] => i = j }

total_files == Len(file_list)

Init ==
  /\ zone \in LocalZones
  /\ folder \in {names \in SUBSET SampleNames : Cardinality(names) <= MaxFiles}
  /\ extracted = {}
  /\ db = EmptyDatabase
  /\ b_pc = "idle"
  /\ calls = 0
  /\ has_callback = FALSE
  /\ file_list = <<>>
  /\ index = 1
  /\ processed_files = 0
  /\ skipped_files = 0
  /\ error_files = 0
  /\ stats = None
  /\ log = EmptyLog
  /\ EngineIdle
  /\ HeroIdle
  /\ PoolIdle
  /\ CallIdle

\* process_screenshots is called when no call is running
CanCall == b_pc \in {"idle", "returned"} /\ calls < MaxCalls

\* a variant of PreflightFails that runs init_database() before the check
PreflightFailsAfterInit ==
  /\ CanCall
  /\ calls' = calls + 1
  /\ has_callback' \in BOOLEAN
  /\ db' = init_database(db)
  /\ log' = [EmptyLog EXCEPT !.preflight = 1, !.init_database = 1]
  /\ stats' = [error |-> TRUE, total |-> 0, processed |-> 0, skipped |-> 0,
               errors |-> 0]
  /\ b_pc' = "returned"
  /\ file_list' = <<>>
  /\ index' = 1
  /\ processed_files' = 0
  /\ skipped_files' = 0
  /\ error_files' = 0
  /\ UNCHANGED <<zone, folder, extracted, engine_vars, hero_vars, pool_vars, call_vars>>

\* lines 497-506: validate_tesseract_installation() returns (False, error_msg)
PreflightFails ==
  /\ CanCall
  /\ calls' = calls + 1
  /\ has_callback' \in BOOLEAN
  /\ log' = [EmptyLog EXCEPT !.preflight = 1]
  /\ stats' = [error |-> TRUE, total |-> 0, processed |-> 0, skipped |-> 0,
               errors |-> 0]
  /\ b_pc' = "returned"
  /\ file_list' = <<>>
  /\ index' = 1
  /\ processed_files' = 0
  /\ skipped_files' = 0
  /\ error_files' = 0
  /\ UNCHANGED <<zone, folder, extracted, db, engine_vars, hero_vars, pool_vars, call_vars>>

\* lines 497-525: validate_tesseract_installation() returns (True, None);
\* init_database(), the file list and progress_callback(0, total_files)
StartBatch ==
  /\ CanCall
  /\ calls' = calls + 1
  /\ has_callback' \in BOOLEAN
  /\ db' = init_database(db)
  /\ file_list' \in Listings(folder)
  /\ log' = [EmptyLog EXCEPT
               !.preflight = 1,
               !.init_database = 1,
               !.progress = IF has_callback' THEN << <<0, Len(file_list')>> >>
                            ELSE <<>>]
  /\ index' = 1
  /\ processed_files' = 0
  /\ skipped_files' = 0
  /\ error_files' = 0
  /\ stats' = None
  /\ b_pc' = "loop"
  /\ UNCHANGED <<zone, folder, extracted, engine_vars, hero_vars, pool_vars, call_vars>>

\* progress_callback(i + 1, total_files), if there is a callback
Progressed(l) ==
  IF has_callback THEN [l EXCEPT !.progress = Append(@, <<index, total_files>>)]
  ELSE l

\* the call save_match(game_datetime, game_map, game_result, game_length_sec,
\* hero_data) of line 552 and how it ended
SaveCall(name, f, outcome) ==
  [file |-> name, date |-> f.game_datetime, map_name |-> f.game_map,
   result |-> f.game_result, length_sec |-> f.game_length_sec,
   hero_data |-> f.hero_data, outcome |-> outcome]

\* a variant of FileRaises whose handler does not count the file
FileRaisesUncounted(name) ==
  /\ log' = Progressed([log EXCEPT !.opened = Append(@, name)])
  /\ UNCHANGED <<db, folder, extracted, processed_files, skipped_files, error_files>>

\* lines 565-569: an exception of Image.open or pytesseract.image_to_string
FileRaises(name) ==
  /\ error_files' = error_files + 1
  /\ log' = Progressed([log EXCEPT !.opened = Append(@, name)])
  /\ UNCHANGED <<db, folder, extracted, processed_files, skipped_files>>

\* lines 539-550: a field is None
FileIncomplete(name) ==
  /\ error_files' = error_files + 1
  /\ log' = Progressed([log EXCEPT !.opened = Append(@, name)])
  /\ UNCHANGED <<db, folder, extracted, processed_files, skipped_files>>

\* a variant of FileSaved that moves the file whatever save_match returned
FileSavedMovedAlways(name, f, outcome, rename_ok) ==
  /\ db' = save_match_db(db, zone, f.game_datetime, f.game_map, f.game_result,
                         f.game_length_sec, f.hero_data, outcome)
  /\ IF rename_ok
     THEN /\ folder' = folder \ {name}
          /\ extracted' = extracted \cup {name}
          /\ processed_files' = processed_files + 1
          /\ log' = Progressed([log EXCEPT
                       !.opened = Append(@, name),
                       !.saved = Append(@, SaveCall(name, f, outcome)),
                       !.moved = Append(@, name)])
          /\ UNCHANGED <<skipped_files, error_files>>
     ELSE /\ error_files' = error_files + 1
          /\ log' = Progressed([log EXCEPT
                       !.opened = Append(@, name),
                       !.saved = Append(@, SaveCall(name, f, outcome))])
          /\ UNCHANGED <<folder, extracted, processed_files, skipped_files>>

\* lines 552-563 and 565-569: save_match, then the move to the extracted
\* folder; rename_ok is FALSE when file_path.rename raises
FileSaved(name, f, outcome, rename_ok) ==
  /\ db' = save_match_db(db, zone, f.game_datetime, f.game_map, f.game_result,
                         f.game_length_sec, f.hero_data, outcome)
  /\ IF save_match(outcome)
     THEN IF rename_ok
          THEN /\ folder' = folder \ {name}
               /\ extracted' = extracted \cup {name}
               /\ processed_files' = processed_files + 1
               /\ log' = Progressed([log EXCEPT
                            !.opened = Append(@, name),
                            !.saved = Append(@, SaveCall(name, f, outcome)),
                            !.moved = Append(@, name)])
               /\ UNCHANGED <<skipped_files, error_files>>
          ELSE /\ error_files' = error_files + 1
               /\ log' = Progressed([log EXCEPT
                            !.opened = Append(@, name),
                            !.saved = Append(@, SaveCall(name, f, outcome))])
               /\ UNCHANGED <<folder, extracted, processed_files, skipped_files>>
     ELSE /\ skipped_files' = skipped_files + 1
          /\ log' = Progressed([log EXCEPT
                       !.opened = Append(@, name),
                       !.saved = Append(@, SaveCall(name, f, outcome))])
          /\ UNCHANGED <<folder, extracted, processed_files, error_files>>

\* a variant of ProcessFileAs without the check of the five fields
ProcessFileAsUnchecked(name, shot, f) ==
  IF shot.kind # "image" THEN FileRaises(name)
  ELSE \E db_ok, rename_ok \in BOOLEAN :
         FileSaved(name, f,
                   save_outcome(db, zone, f.game_datetime, f.game_map, f.game_result,
                                f.game_length_sec, f.hero_data, db_ok),
                   rename_ok)

\* the body of the loop for the file with the given name and content
ProcessFileAs(name, shot, f) ==
  IF shot.kind # "image" THEN FileRaises(name)
  ELSE IF ~all_fields_present(f) THEN FileIncomplete(name)
  ELSE \E db_ok, rename_ok \in BOOLEAN :
         FileSaved(name, f,
                   save_outcome(db, zone, f.game_datetime, f.game_map, f.game_result,
                                f.game_length_sec, f.hero_data, db_ok),
                   rename_ok)

\* lines 527-569: one iteration of the loop over file_list
ProcessFile ==
  /\ b_pc = "loop"
  /\ index <= Len(file_list)
  /\ ProcessFileAs(file_list[index], SampleScreenshots[file_list[index]],
                   fields_of(file_list[index]))
  /\ index' = index + 1
  /\ UNCHANGED <<zone, b_pc, calls, has_callback, file_list, stats,
                 engine_vars, hero_vars, pool_vars, call_vars>>

\* lines 571-584: the loop is over
ReturnStats ==
  /\ b_pc = "loop"
  /\ index > Len(file_list)
  /\ stats' = [total |-> total_files, processed |-> processed_files,
               skipped |-> skipped_files, errors |-> error_files,
               invalid_percentages |-> 0]
  /\ b_pc' = "returned"
  /\ UNCHANGED <<zone, folder, extracted, db, calls, has_callback, file_list,
                 index, processed_files, skipped_files, error_files, log,
                 engine_vars, hero_vars, pool_vars, call_vars>>

Next ==
  \/ PreflightFails
  \/ StartBatch
  \/ ProcessFile
  \/ ReturnStats

Spec == Init /\ [][Next]_vars

\* the loop of process_screenshots is a for loop over a finite list and the
\* function returns after it: the steps of a running call are taken
SpecFair == Spec /\ WF_vars(ProcessFile) /\ WF_vars(ReturnStats)

(***************************************************************************)
(* screenshot_utils.extract_hero_data as a function of the image           *)
(***************************************************************************)
\* the value returned once the secondary attempt has been made
extract_hero_data_retry(p, s) ==
  IF use_secondary(p, s) THEN validated(s.hero_data, s.total)
  ELSE validated(p.hero_data, p.total)

\* the value returned for the result p of the primary attempt
extract_hero_data_after(img, p) ==
  IF needs_retry(p.total, p.heroes)
  THEN extract_hero_data_retry(p, attempt_extraction(img, "Secondary"))
  ELSE validated(p.hero_data, p.total)

\* extract_hero_data(image)
extract_hero_data(img) ==
  extract_hero_data_after(img, attempt_extraction(img, "Primary"))

(***************************************************************************)
(* Engine invocations of a worker pool.  Every invocation runs             *)
(* extract_hero_data on its own image; its local variables (those of       *)
(* extract_hero_data and of the attempt_extraction it is in) are the       *)
(* fields of its record.  HERO_REGIONS, the presets, the vocabulary and    *)
(* the correction tables are module constants that no step assigns.        *)
(***************************************************************************)
\* the number of invocations that run side by side
NumWorkers == 2

WorkerImages == {HeroesOne, HeroesRetry, HeroesInvalid}

\* an invocation at the call of attempt_extraction(settings_name, ...)
AttemptStart(worker, settings_name) ==
  [worker EXCEPT !.settings = settings_name, !.i = 1, !.hero_data = <<>>,
                 !.total_percentage = 0]

\* the invocation at the return of the given value
WorkerReturn(worker, value) ==
  [worker EXCEPT !.pc = "done", !.returned = value]

InitPool ==
  /\ workers \in [1..NumWorkers ->
                    { AttemptStart([image |-> img, pc |-> "attempt",
                                    settings |-> "Primary", i |-> 1,
                                    hero_data |-> <<>>, total_percentage |-> 0,
                                    primary |-> None, returned |-> None],
                                   "Primary") : img \in WorkerImages }]
  /\ EngineIdle
  /\ HeroIdle
  /\ BatchIdle
  /\ CallIdle

\* the record of an invocation after one iteration of the loop of
\* attempt_extraction: crop, recognize_hero, preprocess, OCR,
\* extract_percentage, append
SlotDone(worker) ==
  LET acc == attempt_slot(worker.image, worker.settings, worker.i,
                          [hero_data |-> worker.hero_data,
                           total_percentage |-> worker.total_percentage])
  IN  [worker EXCEPT !.i = worker.i + 1, !.hero_data = acc.hero_data,
                     !.total_percentage = acc.total_percentage]

\* a variant of WorkerSlot in which hero_data and total_percentage are
\* module-level variables that all invocations write
WorkerSlotSharedAccumulator(w) ==
  /\ workers[w].pc = "attempt"
  /\ workers[w].i <= NUM_SLOTS
  /\ workers' = [v \in DOMAIN workers |->
                   IF v = w THEN SlotDone(workers[w])
                   ELSE [workers[v] EXCEPT
                           !.hero_data = SlotDone(workers[w]).hero_data,
                           !.total_percentage = SlotDone(workers[w]).total_percentage]]
  /\ UNCHANGED <<engine_vars, hero_vars, batch_vars, call_vars>>

\* invocation w runs one iteration of the loop of attempt_extraction
WorkerSlot(w) ==
  /\ workers[w].pc = "attempt"
  /\ workers[w].i <= NUM_SLOTS
  /\ workers' = [workers EXCEPT ![w] = SlotDone(workers[w])]
  /\ UNCHANGED <<engine_vars, hero_vars, batch_vars, call_vars>>

\* the record of an invocation after attempt_extraction has returned result
AttemptDone(worker, result) ==
  IF worker.settings = "Primary"
  THEN IF needs_retry(result.total, result.heroes)
       THEN AttemptStart([worker EXCEPT !.primary = result], "Secondary")
       ELSE WorkerReturn(worker, validated(result.hero_data, result.total))
  ELSE WorkerReturn(worker, extract_hero_data_retry(worker.primary, result))

\* invocation w leaves attempt_extraction: the retry check after the primary
\* attempt, the choice and the final validation after the secondary one
WorkerAttemptEnd(w) ==
  /\ workers[w].pc = "attempt"
  /\ workers[w].i > NUM_SLOTS
  /\ workers' = [workers EXCEPT ![w] =
                   AttemptDone(workers[w],
                               [hero_data |-> workers[w].hero_data,
                                total |-> workers[w].total_percentage,
                                heroes |-> Len(workers[w].hero_data)])]
  /\ UNCHANGED <<engine_vars, hero_vars, batch_vars, call_vars>>

\* the invocations take their steps in any order
NextPool == \E w \in 1..NumWorkers : WorkerSlot(w) \/ WorkerAttemptEnd(w)

SpecPool == InitPool /\ [][NextPool]_vars

(***************************************************************************)
(* screenshot_utils.extract_map_name.  ocr is what                         *)
(* pytesseract.image_to_string does for the map region: [ok |-> TRUE,      *)
(* text |-> t] when it returns t, [ok |-> FALSE, text |-> <<>>] when the   *)
(* crop or the OCR raises.                                                 *)
(***************************************************************************)
\* the text returned with return_raw=True when an exception was caught
ERROR_DURING_EXTRACTION ==
  <<"E","r","r","o","r"," ","d","u","r","i","n","g"," ","e","x","t","r","a","c","t","i","o","n">>

\* the first loop of the return_raw branch
RawExact(text) ==
  FirstThat(OVERWATCH_MAPS, LAMBDA map_name : StrUpper(map_name) = text)

\* if not found_map and text in map_corrections: found_map = map_corrections[text]
RawCorrected(text, found_map) ==
  IF found_map = None /\ InMapCorrections(text) THEN MapCorrection(text)
  ELSE found_map

\* if not found_map: the containment loop
RawContained(text, found_map) ==
  IF found_map = None THEN MapByContainment(text) ELSE found_map

\* the tuple (found_map, text) of the return_raw branch
extract_map_name_raw(text) ==
  <<RawContained(text, RawCorrected(text, RawExact(text))), text>>

\* extract_map_name(image, OVERWATCH_MAPS, MAP_CORRECTIONS, config, return_raw)
extract_map_name(ocr, return_raw) ==
  IF ~ocr.ok
  THEN IF return_raw THEN <<None, ERROR_DURING_EXTRACTION>> ELSE None
  ELSE IF return_raw THEN extract_map_name_raw(StrUpper(Strip(ocr.text)))
  ELSE MapOfUpper(StrUpper(Strip(ocr.text)))

\* texts of the map region: empty and blank, exact names, every key of
\* MAP_CORRECTIONS, parts of names, names with more around them, noise
MapOcrTexts ==
  { <<>>,
    <<" ","\n">>,
    <<"B","U","S","A","N","\n">>,
    <<"b","u","s","a","n">>,
    <<"N","U","M","B","A","N","1">>,
    <<"n","u","m","b","a","n","1","\n">>,
    <<"N","U","M","B","A","N",")">>,
    <<"E","S","P","E","R","A","N","G","A">>,
    <<"P","A","R","A","I","S","O">>,
    <<"J","U","N","K","E","R","T","O","W","N">>,
    <<"K","I","N","G"," ","R","O","W">>,
    <<"W","A","T","C","H","P","O","I","N","T">>,
    <<"K","i","n","g","'","s"," ","R","o","w">>,
    <<"R","O","U","T","E"," ","6","6"," ","-">>,
    <<"N","E","W">>,
    <<"X","Q","Z">>,
    <<"P","A","R","A","Í","S","O">>,
    <<"E","s","p","e","r","a","n","ç","a">> }

MapOcrResults ==
  { [ok |-> TRUE, text |-> t] : t \in MapOcrTexts } \cup {[ok |-> FALSE, text |-> <<>>]}

(***************************************************************************)
(* screenshot_utils.extract_game_length(image, text).  region is what the  *)
(* crop and OCR of the game length region do: [ok |-> TRUE, text |-> t] or *)
(* [ok |-> FALSE, text |-> <<>>] when they raise.  The value is the record *)
(* of the returned tuple ret = (seconds, raw_match_1, raw_length_text_2),  *)
(* seconds being None or <<n>>, and of the number of times                 *)
(* pytesseract.image_to_string was called for the region.                  *)
(***************************************************************************)
\* the text of group 1 of r"GAME LENGTH:\s*(\d+:\d+)" for the match at i
GameLengthGroup(text, i) ==
  LET j == SkipWhitespace(text, i + Len(GAME_LENGTH_LABEL))
  IN  SubSeq(text, j, DigitsEnd(text, DigitsEnd(text, j) + 1) - 1)

\* map(int, raw.split(':')) raises no ValueError: int() refuses a string of
\* more than 4300 digits
IntsParse(raw) ==
  LET k == DigitsEnd(raw, 1)
  IN  k - 1 <= 4300 /\ Len(raw) - k <= 4300

\* r"(\d{1,2}):(\d{2})" matches at position p with a first group of n digits
RegionGroupsAt(text, p, n) ==
  /\ \A q \in p..(p + n - 1) : q <= Len(text) /\ IsDigit(text[q])
  /\ CharAt(text, p + n, ":")
  /\ p + n + 2 <= Len(text)
  /\ IsDigit(text[p + n + 1])
  /\ IsDigit(text[p + n + 2])

\* r"(\d{1,2}):(\d{2})" matches at position p
RegionLengthAt(text, p) == RegionGroupsAt(text, p, 2) \/ RegionGroupsAt(text, p, 1)

\* mins * 60 + secs of the groups of the match at position p
RegionLengthValue(text, p) ==
  LET n == IF RegionGroupsAt(text, p, 2) THEN 2 ELSE 1
  IN  ParseInt(SubSeq(text, p, p + n - 1)) * 60
        + ParseInt(SubSeq(text, p + n + 1, p + n + 2))

\* the return of attempt 2 for the stripped text of the region and the
\* position p of the match in it, 0 when there is none
game_length_of_region(raw_match_1, raw_length_text_2, p) ==
  [ret |-> << IF p = 0 THEN None ELSE <<RegionLengthValue(raw_length_text_2, p)>>,
              raw_match_1, raw_length_text_2 >>,
   region_ocr |-> 1]

\* attempt 2: the try block and the return after it
game_length_attempt_2(region, raw_match_1) ==
  IF ~region.ok THEN [ret |-> <<None, raw_match_1, None>>, region_ocr |-> 1]
  ELSE game_length_of_region(raw_match_1, Strip(region.text),
         FirstMatch(Strip(region.text),
                    LAMBDA p : RegionLengthAt(Strip(region.text), p)))

\* a variant of game_length_found that crops and reads the region before it
\* returns
game_length_found_region_read(raw_match_1, region) ==
  [ret |-> <<<<MinSecValue(raw_match_1, 1)>>, raw_match_1,
             IF region.ok THEN Strip(region.text) ELSE None>>,
   region_ocr |-> 1]

\* the return inside attempt 1
game_length_found(raw_match_1, region) ==
  [ret |-> <<<<MinSecValue(raw_match_1, 1)>>, raw_match_1, None>>, region_ocr |-> 0]

\* attempt 1 for the position i of the match in the text, 0 when there is none
game_length_attempt_1(text, i, region) ==
  IF i = 0 THEN game_length_attempt_2(region, None)
  ELSE IF IntsParse(GameLengthGroup(text, i))
       THEN game_length_found(GameLengthGroup(text, i), region)
       ELSE game_length_attempt_2(region, GameLengthGroup(text, i))

\* extract_game_length(image, text)
extract_game_length(region, text) ==
  game_length_attempt_1(text, FirstMatch(text, LAMBDA i : GameLengthAt(text, i)), region)

\* whole-frame texts with and without the game length
LengthTexts ==
  { <<"G","A","M","E"," ","L","E","N","G","T","H",":"," ","1","0",":","0","8">>,
    <<"G","A","M","E"," ","L","E","N","G","T","H",":","7",":","4","5">>,
    <<"D","E","F","E","A","T","\n","G","A","M","E"," ","L","E","N","G","T","H",":"," ","1","5",":","2","3","\n">>,
    <<"G","A","M","E"," ","L","E","N","G","T","H",":"," ","x">>,
    <<>>,
    <<"L","E","N","G","T","H"," ","1","0",":","0","8">>,
    <<"g","a","m","e"," ","l","e","n","g","t","h",":"," ","1","0",":","0","8">>,
    <<"G","A","M","E"," ","L","E","N","G","T","H",":","\n"," ","0",":","0","0">>,
    <<"G","A","M","E"," ","L","E","N","G","T","H",":"," ","5",":","7"," ","G","A","M","E"," ","L","E","N","G","T","H",":"," ","1",":","0","0">> }

\* texts of the game length region
LengthRegionTexts ==
  { <<>>,
    <<"7",":","4","5","\n">>,
    <<"1","5",":","3","7">>,
    <<"1","2","3",":","4","5">>,
    <<"1",":","2">>,
    <<":">>,
    <<"1","2","3","4","5">>,
    <<" ","0",":","0","0"," ","1",":","1","1">> }

LengthRegionResults ==
  { [ok |-> TRUE, text |-> t] : t \in LengthRegionTexts }
    \cup {[ok |-> FALSE, text |-> <<>>]}

\* whole-frame texts for determine_result: the literals in several cases, with
\* the dotted capital I, the dotless i and the long s, score lines, both,
\* neither
ResultTexts ==
  { <<"V",DOTTED_I,"C","T","O","R","Y">>,
    <<"v",DOTLESS_I,"c","t","o","r","y">>,
    <<"V","i","c","t","o","r","y","\n">>,
    <<"F","I","N","A","L"," ","S","C","O","R","E",":"," ","3"," ","V","S"," ","2">>,
    <<"f","i","n","a","l"," ","s","c","o","r","e",":","2","v","s","3">>,
    <<"F",DOTTED_I,"N","A","L"," ","S","C","O","R","E",":"," ","1"," ","V","S"," ","1">>,
    <<"D","E","F","E","A","T"," ","F","I","N","A","L"," ","S","C","O","R","E",":"," ","3"," ","V","S"," ","2">>,
    <<"D","R","A","W","D","E","F","E","A","T">>,
    <<"V","I","C","T","O","R">>,
    <<"F","I","N","A","L"," ","S","C","O","R","E",":"," ","3"," ","V","S"," ","x">>,
    <<"F","I","N","A","L"," ","S","C","O","R","E",":"," ","1","2"," ","V","S","\n"," ","3"," ","V","I","C","T","O","R","Y">>,
    <<"f","i","n","a","l"," ",LONG_S,"c","o","r","e",":"," ","0"," ","v","s"," ","0">>,
    <<>>,
    <<"F","I","N","A","L"," ","S","C","O","R","E",":"," "," ","2"," "," ","V","S"," ","1","0">>,
    <<"d","r","a","w">> }

\* whole-frame texts for extract_datetime: dates and times in and out of
\* range, texts without the pattern
DateTexts ==
  { <<"D","A","T","E",":"," ","0","6","/","2","6","/","2","5"," ","-"," ","0","3",":","0","0">>,
    <<"D","A","T","E",":"," ","1","3","/","0","1","/","2","5"," ","-"," ","0","3",":","0","0">>,
    <<"D","A","T","E",":"," ","9","9","/","0","1","/","2","5"," ","-"," ","1","0",":","0","0">>,
    <<"D","A","T","E",":"," ","0","6","/","2","6","/","2","5"," ","-"," ","2","4",":","0","0">>,
    <<"D","A","T","E",":"," ","0","6","/","2","6","/","2","5"," ","-"," ","9","9",":","0","0">>,
    <<"D","A","T","E",":"," ","0","6","/","2","6","/","2","5"," ","-"," ","0","3",":","6","0">>,
    <<"D","A","T","E",":"," ","0","2","/","2","9","/","2","5"," ","-"," ","1","2",":","0","0">>,
    <<"D","A","T","E",":"," ","0","2","/","2","9","/","2","4"," ","-"," ","1","2",":","0","0">>,
    <<"D","A","T","E",":"," ","0","0","/","1","0","/","2","5"," ","-"," ","0","1",":","0","0">>,
    <<"D","A","T","E",":"," ","0","6","/","0","0","/","2","5"," ","-"," ","0","1",":","0","0">>,
    <<"D","A","T","E",":","0","5","/","0","8","/","2","5","-","0","5",":","4","4">>,
    <<"D","A","T","E",":"," ","6","/","2","6","/","2","5"," ","-"," ","0","3",":","0","0">>,
    <<"d","a","t","e",":"," ","0","6","/","2","6","/","2","5"," ","-"," ","0","3",":","0","0">>,
    <<>>,
    <<"D","A","T","E",":"," ","0","6","/","2","6","/","2","5"," ","0","3",":","0","0">>,
    <<"D","A","T","E",":"," ","1","2","/","3","1","/","6","9"," ","-"," ","2","3",":","5","9">>,
    <<"D","A","T","E",":"," ","0","6","/","3","1","/","2","5"," ","-"," ","0","1",":","0","0">>,
    <<"X"," ","D","A","T","E",":"," ","1","3","/","0","1","/","2","5"," ","-"," ","0","3",":","0","0"," ","D","A","T","E",":"," ","0","1","/","0","1","/","2","5"," ","-"," ","0","0",":","0","0">>,
    <<"D","A","T","E",":"," ","0","7","/","1","3","/","2","5"," ","-"," ","1","7",":","5","8","\n","G","A","M","E">> }

\* texts for clean_hero_name: empty and blank, names in several cases, keys
\* of HERO_CORRECTIONS, misreadings near and far from a name, digits
HeroCallTexts ==
  { <<>>,
    <<" ","\n">>,
    <<"S","i","g","m","a","\n">>,
    <<"X","Q">>,
    <<"1","2">>,
    <<"Z","A","R">>,
    <<" ","Z","A","R","Y","G">>,
    <<"M","A","U","G","4">>,
    <<"A","S","H">>,
    <<"l","ú","c","i","o">>,
    <<"S","O","L","D","I","E","R",":"," ","7","6">>,
    <<"T","O","R","B","J","O","R","N">>,
    <<"d","v","a">>,
    <<"W","r","e","c","k","i","n","g"," ","B","a","l","l">>,
    <<"R","E","I","N","H","A","R","D","T","1">>,
    <<"A","N","N","A">>,
    <<"a">>,
    <<"J","U","N","K","E","R"," "," ","Q","U","E","E","N">> }

(***************************************************************************)
(* Calls of the extractors of screenshot_utils, one at a time: call is     *)
(* None between calls and otherwise holds the function, its arguments and  *)
(* the value it returned.                                                  *)
(***************************************************************************)
InitCall == CallIdle /\ EngineIdle /\ HeroIdle /\ BatchIdle /\ PoolIdle

CallExtractMapName ==
  /\ CallIdle
  /\ \E ocr \in MapOcrResults, return_raw \in BOOLEAN :
       call' = [fn |-> "extract_map_name", ocr |-> ocr, return_raw |-> return_raw,
                ret |-> extract_map_name(ocr, return_raw)]
  /\ UNCHANGED <<engine_vars, hero_vars, batch_vars, pool_vars>>

CallExtractGameLength ==
  /\ CallIdle
  /\ \E region \in LengthRegionResults, text \in LengthTexts :
       call' = [fn |-> "extract_game_length", region |-> region, text |-> text,
                ret |-> extract_game_length(region, text)]
  /\ UNCHANGED <<engine_vars, hero_vars, batch_vars, pool_vars>>

CallDetermineResult ==
  /\ CallIdle
  /\ \E text \in ResultTexts :
       call' = [fn |-> "determine_result", text |-> text, ret |-> determine_result(text)]
  /\ UNCHANGED <<engine_vars, hero_vars, batch_vars, pool_vars>>

CallExtractDatetime ==
  /\ CallIdle
  /\ \E text \in DateTexts :
       call' = [fn |-> "extract_datetime", text |-> text, ret |-> extract_datetime(text)]
  /\ UNCHANGED <<engine_vars, hero_vars, batch_vars, pool_vars>>

CallCleanHeroName ==
  /\ CallIdle
  /\ \E text \in HeroCallTexts :
       call' = [fn |-> "clean_hero_name", text |-> text,
                ret |-> clean_hero_name(text, HERO_CORRECTIONS, AllHeroes)]
  /\ UNCHANGED <<engine_vars, hero_vars, batch_vars, pool_vars>>

\* extract_hero_data with the results of its two attempts
CallExtractHeroData ==
  /\ CallIdle
  /\ \E img \in WorkerImages :
       call' = [fn |-> "extract_hero_data", image |-> img,
                attempts |-> [s \in PERCENTAGE_SETTINGS |-> attempt_extraction(img, s)],
                ret |-> extract_hero_data(img)]
  /\ UNCHANGED <<engine_vars, hero_vars, batch_vars, pool_vars>>

\* recognize_hero(region) with the texts the three presets read in the region
CallRecognizeHero ==
  /\ CallIdle
  /\ \E texts \in [1..Len(HERO_ATTEMPTS) -> SampleHeroTexts] :
       call' = [fn |-> "recognize_hero", texts |-> texts,
                ret |-> recognize_hero(texts)]
  /\ UNCHANGED <<engine_vars, hero_vars, batch_vars, pool_vars>>

\* the caller has used the returned value
CallDone ==
  /\ ~CallIdle
  /\ call' = None
  /\ UNCHANGED <<engine_vars, hero_vars, batch_vars, pool_vars>>

NextCall ==
  \/ CallExtractMapName
  \/ CallExtractGameLength
  \/ CallDetermineResult
  \/ CallExtractDatetime
  \/ CallCleanHeroName
  \/ CallExtractHeroData
  \/ CallRecognizeHero
  \/ CallDone

SpecCall == InitCall /\ [][NextCall]_vars

(***************************************************************************)
(* The store and the operations on it: ReadScreenshot.save_match,          *)
(* ow_stats_gui.save_manual_match, stats_functions.delete_match_by_date    *)
(* and stats_functions.print_all_matches_by_season.                        *)
(***************************************************************************)
\* summer time holds at the UTC time dt: from 01:00 UTC on the last Sunday
\* of March up to 01:00 UTC on the last Sunday of October
InSummerTimeUTC(tz, dt) ==
  /\ tz.dst
  /\ ToMinutes(dt) >= WallMinutes(dt.year, 3, LastSunday(dt.year, 3), 1)
  /\ ToMinutes(dt) < WallMinutes(dt.year, 10, LastSunday(dt.year, 10), 1)

\* utc_time.astimezone(config.LOCAL_TIMEZONE) for utc_time with tzinfo UTC
utc_astimezone(tz, utc_dt) ==
  FromMinutes(ToMinutes(utc_dt)
                + (IF InSummerTimeUTC(tz, utc_dt) THEN tz.std + 60 ELSE tz.std))

\* the date and time columns of the line print_all_matches_by_season writes
\* for a row of matches: local_time.strftime('%Y-%m-%d'), strftime('%H:%M');
\* id, which the line does not show, tells which match the line is for
display_line(tz, row) ==
  LET local_time == FormatOutput(utc_astimezone(tz, OutputFields(row.date)))
  IN  [date |-> SubSeq(local_time, 1, 10), time |-> SubSeq(local_time, 12, 16),
       id |-> row.id]

\* ORDER BY m.date DESC: the rows of matches, latest date first
RECURSIVE OrderByDateDesc(_)
OrderByDateDesc(rows) ==
  IF rows = <<>> THEN <<>>
  ELSE LET k == CHOOSE i \in DOMAIN rows :
                  \A j \in DOMAIN rows :
                    \/ ToMinutes(OutputFields(rows[i].date))
                         > ToMinutes(OutputFields(rows[j].date))
                    \/ /\ ToMinutes(OutputFields(rows[i].date))
                            = ToMinutes(OutputFields(rows[j].date))
                       /\ i <= j
       IN  <<rows[k]>> \o OrderByDateDesc([i \in 1..(Len(rows) - 1) |->
                                            IF i < k THEN rows[i] ELSE rows[i + 1]])

\* print_all_matches_by_season() without seasons and dates: one line per match
print_all_matches_by_season(d, tz) ==
  [i \in DOMAIN d.matches |-> display_line(tz, OrderByDateDesc(d.matches)[i])]

\* delete_match_by_date(match_date): DELETE FROM matches WHERE date = ?
delete_match_by_date(d, match_date) ==
  [d EXCEPT !.matches = SelectSeq(@, LAMBDA row : row.date # match_date)]

\* the string delete_match_by_date returns, by its first words
delete_message(d, match_date) ==
  IF \E r \in DOMAIN d.matches : d.matches[r].date = match_date
  THEN "Successfully deleted match" ELSE "No match found"

\* save_manual_match: mins, secs = map(int, length_str.split(':')) for a text
\* of digits and colons; None when it raises ValueError
manual_length(length_str) ==
  LET colons == {q \in DOMAIN length_str : length_str[q] = ":"}
  IN  IF /\ Cardinality(colons) = 1
         /\ \A q \in DOMAIN length_str : q \in colons \/ IsDigit(length_str[q])
         /\ 1 \notin colons
         /\ Len(length_str) \notin colons
      THEN LET c == CHOOSE q \in colons : TRUE
           IN  <<ParseInt(SubSeq(length_str, 1, c - 1)) * 60
                   + ParseInt(SubSeq(length_str, c + 1, Len(length_str)))>>
      ELSE None

\* save_manual_match: the entries with a hero and a percentage above 0
RECURSIVE manual_hero_data(_)
manual_hero_data(slots) ==
  IF slots = <<>> THEN <<>>
  ELSE (IF slots[1].hero # <<>> /\ slots[1].percent > 0
        THEN <<[hero |-> slots[1].hero, percentage |-> slots[1].percent]>>
        ELSE <<>>) \o manual_hero_data(Tail(slots))

\* save_manual_match: the validation of the percentage totals fails
manual_total_invalid(num_heroes, total_percent) ==
  IF num_heroes = 1 \/ num_heroes = 2 THEN total_percent < 98
  ELSE total_percent > 100

\* the way save_manual_match ends for the values of the form
manual_outcome(d, tz, form) ==
  IF OutputValueError(form.date) THEN "invalid_date"
  ELSE IF ~\E m \in DOMAIN OVERWATCH_MAPS : OVERWATCH_MAPS[m] = form.map
  THEN "invalid_map"
  ELSE IF ~ResultCheck(form.result) THEN "invalid_result"
  ELSE IF manual_length(form.length) = None THEN "invalid_length"
  ELSE IF manual_hero_data(form.slots) = <<>> THEN "no_hero"
  ELSE IF manual_total_invalid(Len(manual_hero_data(form.slots)),
                               total_percentage_of(manual_hero_data(form.slots)))
  THEN "invalid_total"
  ELSE IF ~d.created THEN "database_error"
  ELSE IF MatchExists(d, utc_date_str_of(tz, form.date), form.map, form.result,
                      manual_length(form.length))
  THEN "exists"
  ELSE "stored"

\* the database after save_manual_match: the connection is closed without a
\* commit when the match exists, so the id the INSERT took is given back
save_manual_match_db(d, tz, form, outcome) ==
  IF outcome = "stored"
  THEN InsertMatch(d, utc_date_str_of(tz, form.date), form.map, form.result,
                   manual_length(form.length), manual_hero_data(form.slots))
  ELSE d

\* the most INSERTs into matches
MaxInserts == 2

\* records handed to save_match: a summer date and a date in the hour left
\* out when summer time begins; one, three and two participants, the two
\* with one name; a total above PERCENTAGE_MAX
StoreRecords ==
  { [date |-> <<"2","0","2","5","-","0","6","-","2","6"," ","0","3",":","0","0">>,
     map_name |-> <<"B","u","s","a","n">>, result |-> <<"V","I","C","T","O","R","Y">>, length_sec |-> <<608>>,
     hero_data |-> <<[hero |-> <<"S","i","g","m","a">>, percentage |-> 100]>>],
    [date |-> <<"2","0","2","5","-","0","6","-","2","6"," ","0","3",":","0","0">>,
     map_name |-> <<"B","u","s","a","n">>, result |-> <<"V","I","C","T","O","R","Y">>, length_sec |-> <<608>>,
     hero_data |-> <<[hero |-> <<"S","i","g","m","a">>, percentage |-> 65], [hero |-> <<"H","a","z","a","r","d">>, percentage |-> 28], [hero |-> <<"M","a","u","g","a">>, percentage |-> 7]>>],
    [date |-> <<"2","0","2","5","-","0","6","-","2","6"," ","0","3",":","0","0">>,
     map_name |-> <<"B","u","s","a","n">>, result |-> <<"V","I","C","T","O","R","Y">>, length_sec |-> <<608>>,
     hero_data |-> <<[hero |-> <<"S","i","g","m","a">>, percentage |-> 60], [hero |-> <<"S","i","g","m","a">>, percentage |-> 40]>>],
    [date |-> <<"2","0","2","5","-","0","3","-","3","0"," ","0","2",":","3","0">>,
     map_name |-> <<"B","u","s","a","n">>, result |-> <<"V","I","C","T","O","R","Y">>, length_sec |-> <<608>>,
     hero_data |-> <<[hero |-> <<"S","i","g","m","a">>, percentage |-> 100]>>],
    [date |-> <<"2","0","2","5","-","0","3","-","3","0"," ","0","2",":","3","0">>,
     map_name |-> <<"B","u","s","a","n">>, result |-> <<"V","I","C","T","O","R","Y">>, length_sec |-> <<608>>,
     hero_data |-> <<[hero |-> <<"S","i","g","m","a">>, percentage |-> 65], [hero |-> <<"H","a","z","a","r","d">>, percentage |-> 28], [hero |-> <<"M","a","u","g","a">>, percentage |-> 7]>>],
    [date |-> <<"2","0","2","5","-","0","3","-","3","0"," ","0","2",":","3","0">>,
     map_name |-> <<"B","u","s","a","n">>, result |-> <<"V","I","C","T","O","R","Y">>, length_sec |-> <<608>>,
     hero_data |-> <<[hero |-> <<"S","i","g","m","a">>, percentage |-> 60], [hero |-> <<"S","i","g","m","a">>, percentage |-> 40]>>],
    [date |-> <<"2","0","2","5","-","0","6","-","2","6"," ","0","3",":","0","0">>,
     map_name |-> <<"B","u","s","a","n">>, result |-> <<"V","I","C","T","O","R","Y">>, length_sec |-> <<608>>,
     hero_data |-> <<[hero |-> <<"S","i","g","m","a">>, percentage |-> 100], [hero |-> <<"Z","a","r","y","a">>, percentage |-> 3]>>] }

\* values of the manual entry form: totals of 200 with two heroes, 50 with
\* one, 90 and 101 with three; a match save_match also stores; a wrong date,
\* map, result and length; no hero
ManualForms ==
  { [date |-> <<"2","0","2","5","-","0","6","-","2","7"," ","2","1",":","1","5">>, map |-> <<"B","u","s","a","n">>,
     result |-> <<"V","I","C","T","O","R","Y">>, length |-> <<"1","0",":","0","8">>,
     slots |-> <<[hero |-> <<"S","i","g","m","a">>, percent |-> 100], [hero |-> <<"Z","a","r","y","a">>, percent |-> 100], [hero |-> <<>>, percent |-> 0]>>],
    [date |-> <<"2","0","2","5","-","0","6","-","2","7"," ","2","1",":","1","5">>, map |-> <<"B","u","s","a","n">>,
     result |-> <<"V","I","C","T","O","R","Y">>, length |-> <<"1","0",":","0","8">>,
     slots |-> <<[hero |-> <<"S","i","g","m","a">>, percent |-> 50], [hero |-> <<>>, percent |-> 0], [hero |-> <<>>, percent |-> 0]>>],
    [date |-> <<"2","0","2","5","-","0","6","-","2","7"," ","2","1",":","1","5">>, map |-> <<"B","u","s","a","n">>,
     result |-> <<"V","I","C","T","O","R","Y">>, length |-> <<"1","0",":","0","8">>,
     slots |-> <<[hero |-> <<"S","i","g","m","a">>, percent |-> 40], [hero |-> <<"Z","a","r","y","a">>, percent |-> 30], [hero |-> <<"M","a","u","g","a">>, percent |-> 20]>>],
    [date |-> <<"2","0","2","5","-","0","6","-","2","7"," ","2","1",":","1","5">>, map |-> <<"B","u","s","a","n">>,
     result |-> <<"V","I","C","T","O","R","Y">>, length |-> <<"1","0",":","0","8">>,
     slots |-> <<[hero |-> <<"S","i","g","m","a">>, percent |-> 50], [hero |-> <<"Z","a","r","y","a">>, percent |-> 50], [hero |-> <<"M","a","u","g","a">>, percent |-> 1]>>],
    [date |-> <<"2","0","2","5","-","0","6","-","2","6"," ","0","3",":","0","0">>, map |-> <<"B","u","s","a","n">>,
     result |-> <<"V","I","C","T","O","R","Y">>, length |-> <<"1","0",":","0","8">>,
     slots |-> <<[hero |-> <<"S","i","g","m","a">>, percent |-> 100], [hero |-> <<>>, percent |-> 50], [hero |-> <<"Z","a","r","y","a">>, percent |-> 0]>>],
    [date |-> <<"2","7",".","0","6",".","2","0","2","5">>, map |-> <<"B","u","s","a","n">>,
     result |-> <<"V","I","C","T","O","R","Y">>, length |-> <<"1","0",":","0","8">>,
     slots |-> <<[hero |-> <<"S","i","g","m","a">>, percent |-> 100], [hero |-> <<>>, percent |-> 0], [hero |-> <<>>, percent |-> 0]>>],
    [date |-> <<"2","0","2","5","-","0","6","-","2","7"," ","2","1",":","1","5">>, map |-> <<"B","U","S","A","N">>,
     result |-> <<"V","I","C","T","O","R","Y">>, length |-> <<"1","0",":","0","8">>,
     slots |-> <<[hero |-> <<"S","i","g","m","a">>, percent |-> 100], [hero |-> <<>>, percent |-> 0], [hero |-> <<>>, percent |-> 0]>>],
    [date |-> <<"2","0","2","5","-","0","6","-","2","7"," ","2","1",":","1","5">>, map |-> <<"B","u","s","a","n">>,
     result |-> <<>>, length |-> <<"1","0",":","0","8">>,
     slots |-> <<[hero |-> <<"S","i","g","m","a">>, percent |-> 100], [hero |-> <<>>, percent |-> 0], [hero |-> <<>>, percent |-> 0]>>],
    [date |-> <<"2","0","2","5","-","0","6","-","2","7"," ","2","1",":","1","5">>, map |-> <<"B","u","s","a","n">>,
     result |-> <<"V","I","C","T","O","R","Y">>, length |-> <<"1","0">>,
     slots |-> <<[hero |-> <<"S","i","g","m","a">>, percent |-> 100], [hero |-> <<>>, percent |-> 0], [hero |-> <<>>, percent |-> 0]>>],
    [date |-> <<"2","0","2","5","-","0","6","-","2","7"," ","2","1",":","1","5">>, map |-> <<"B","u","s","a","n">>,
     result |-> <<"V","I","C","T","O","R","Y">>, length |-> <<"1","0",":","0","8">>,
     slots |-> <<[hero |-> <<>>, percent |-> 0], [hero |-> <<>>, percent |-> 0], [hero |-> <<>>, percent |-> 0]>>] }

\* the variables of the batch that the operations on the store leave alone
store_rest ==
  <<zone, folder, extracted, b_pc, calls, has_callback, file_list, index,
    processed_files, skipped_files, error_files, stats, log>>

InitStore ==
  /\ zone \in LocalZones
  /\ db = init_database(EmptyDatabase)
  /\ folder = {}
  /\ extracted = {}
  /\ b_pc = "idle"
  /\ calls = 0
  /\ has_callback = FALSE
  /\ file_list = <<>>
  /\ index = 1
  /\ processed_files = 0
  /\ skipped_files = 0
  /\ error_files = 0
  /\ stats = None
  /\ log = EmptyLog
  /\ EngineIdle
  /\ HeroIdle
  /\ PoolIdle
  /\ CallIdle

\* save_match(date, map_name, result, length_sec, hero_data)
StoreSaveMatch ==
  /\ db.match_seq < MaxInserts
  /\ \E rec \in StoreRecords :
       LET outcome == save_outcome(db, zone, rec.date, rec.map_name, rec.result,
                                   rec.length_sec, rec.hero_data, TRUE)
       IN  /\ db' = save_match_db(db, zone, rec.date, rec.map_name, rec.result,
                                  rec.length_sec, rec.hero_data, outcome)
           /\ call' = [fn |-> "save_match", record |-> rec, outcome |-> outcome,
                       ret |-> save_match(outcome)]
  /\ UNCHANGED <<store_rest, engine_vars, hero_vars, pool_vars>>

\* save_manual_match(window) with the values of the form
StoreManualMatch ==
  /\ db.match_seq < MaxInserts
  /\ \E form \in ManualForms :
       /\ db' = save_manual_match_db(db, zone, form, manual_outcome(db, zone, form))
       /\ call' = [fn |-> "save_manual_match", form |-> form,
                   ret |-> manual_outcome(db, zone, form)]
  /\ UNCHANGED <<store_rest, engine_vars, hero_vars, pool_vars>>

\* a date no match is stored with
ABSENT_DATE == <<"2","0","2","5","-","0","1","-","0","1"," ","0","0",":","0","0">>

\* delete_match_by_date(match_date) for the date of a stored match or for a
\* date without a match
StoreDelete ==
  /\ db.matches # <<>>
  /\ \E match_date \in {db.matches[r].date : r \in DOMAIN db.matches} \cup {ABSENT_DATE} :
       /\ db' = delete_match_by_date(db, match_date)
       /\ call' = [fn |-> "delete_match_by_date", match_date |-> match_date,
                   ret |-> delete_message(db, match_date)]
  /\ UNCHANGED <<store_rest, engine_vars, hero_vars, pool_vars>>

\* print_all_matches_by_season()
StorePrint ==
  /\ db.matches # <<>>
  /\ call' = [fn |-> "print_all_matches_by_season",
              ret |-> print_all_matches_by_season(db, zone)]
  /\ UNCHANGED <<batch_vars, engine_vars, hero_vars, pool_vars>>

NextStore ==
  \/ StoreSaveMatch
  \/ StoreManualMatch
  \/ StoreDelete
  \/ StorePrint

SpecStore == InitStore /\ [][NextStore]_vars

(***************************************************************************)
(* The three copies of extract_hero_data (screenshot_utils, ReadScreenshot *)
(* and DebugScreenshot) on the same results of the two passes              *)
(***************************************************************************)
\* percentages of a slot: totals below, at and above the two bounds come up
\* for one, two and three participants, and so do ties in the distance to 100
PassPercentages == {1, 49, 51, 97, 98, 103}

\* the names of the slots that a pass recognized, in slot order
PassHeroes ==
  << <<"S","i","g","m","a">>, <<"Z","a","r","y","a">>, <<"M","a","u","g","a">> >>

\* the hero_data lists a pass can build: 0 to NUM_SLOTS participants
PassData ==
  UNION { { [i \in 1..n |-> [hero |-> PassHeroes[i], percentage |-> p[i]]] :
              p \in [1..n -> PassPercentages] } : n \in 0..NUM_SLOTS }

\* (hero_data, total_percentage, num_heroes) as attempt_extraction of
\* screenshot_utils and _extract_hero_data_attempt of DebugScreenshot return it
PassResult(data) ==
  [hero_data |-> data, total |-> total_percentage_of(data), heroes |-> Len(data)]

\* the same as ReadScreenshot._extract_hero_data_attempt returns it
RsPassResult(data) ==
  [hero_data |-> data, total_percentage |-> total_percentage_of(data),
   num_heroes |-> Len(data)]

\* screenshot_utils.extract_hero_data for the results p and s of the passes
extract_hero_data_of(p, s) ==
  IF needs_retry(p.total, p.heroes) THEN extract_hero_data_retry(p, s)
  ELSE validated(p.hero_data, p.total)

\* the pass whose result screenshot_utils.extract_hero_data validates
selected_pass(p, s) ==
  IF needs_retry(p.total, p.heroes) /\ use_secondary(p, s) THEN "Secondary"
  ELSE "Primary"

\* ReadScreenshot.extract_hero_data for the results of the passes
rs_extract_hero_data_of(p, s) ==
  IF rs_needs_retry(p) THEN rs_final_validation(rs_better(p, s))
  ELSE rs_final_validation(p)

\* the pass whose result ReadScreenshot.extract_hero_data validates
rs_selected_pass(p, s) ==
  IF /\ rs_needs_retry(p)
     /\ \/ s.num_heroes > p.num_heroes
        \/ /\ s.num_heroes = p.num_heroes
           /\ Abs(s.total_percentage - 100) < Abs(p.total_percentage - 100)
  THEN "Secondary" ELSE "Primary"

\* needs_retry of DebugScreenshot.extract_hero_data
dbg_needs_retry(primary_total, primary_heroes) ==
  /\ primary_heroes > 0
  /\ \/ primary_total > PERCENTAGE_MAX
     \/ primary_heroes <= 2 /\ primary_total < PERCENTAGE_MIN

\* DebugScreenshot.extract_hero_data, "if not needs_retry": the return
dbg_no_retry(p) ==
  IF p.heroes = 0 THEN None
  ELSE IF PERCENTAGE_MIN <= p.total /\ p.total <= PERCENTAGE_MAX THEN p.hero_data
  ELSE None

\* DebugScreenshot.extract_hero_data: the result that is kept after the
\* secondary pass
dbg_final(p, s) ==
  IF s.heroes > p.heroes THEN s
  ELSE IF s.heroes = p.heroes /\ Abs(s.total - 100) < Abs(p.total - 100) THEN s
  ELSE p

\* DebugScreenshot.extract_hero_data: the final validation after the
\* secondary pass
dbg_final_validation(final) ==
  IF \/ final.total > PERCENTAGE_MAX
     \/ Len(final.hero_data) <= 2 /\ final.total < PERCENTAGE_MIN
  THEN None ELSE final.hero_data

\* DebugScreenshot.extract_hero_data for the results of the passes
dbg_extract_hero_data_of(p, s) ==
  IF ~dbg_needs_retry(p.total, p.heroes) THEN dbg_no_retry(p)
  ELSE dbg_final_validation(dbg_final(p, s))

\* the three functions are applied to the same pair of pass results
CompareExtractHeroData ==
  /\ CallIdle
  /\ \E A \in PassData, B \in PassData :
       call' =
         [fn |-> "extract_hero_data_of", primary |-> A, secondary |-> B,
          su |-> [retry |-> needs_retry(PassResult(A).total, PassResult(A).heroes),
                  selected |-> selected_pass(PassResult(A), PassResult(B)),
                  ret |-> extract_hero_data_of(PassResult(A), PassResult(B))],
          rs |-> [retry |-> rs_needs_retry(RsPassResult(A)),
                  selected |-> rs_selected_pass(RsPassResult(A), RsPassResult(B)),
                  ret |-> rs_extract_hero_data_of(RsPassResult(A), RsPassResult(B))],
          dbg |-> [retry |-> dbg_needs_retry(PassResult(A).total, PassResult(A).heroes),
                   ret |-> dbg_extract_hero_data_of(PassResult(A), PassResult(B))]]
  /\ UNCHANGED <<engine_vars, hero_vars, batch_vars, pool_vars>>

NextCompare == CompareExtractHeroData \/ CallDone

SpecCompare == InitCall /\ [][NextCompare]_vars
(***************************************************************************)
(* Properties of extract_hero_data and recognize_hero                      *)
(***************************************************************************)
Ran(settings) == \E i \in DOMAIN passes : passes[i] = settings

\* what the OCR gives for one slot, read directly from the image
RawName(img, s) == recognize_hero(img.hero[s])

RawPercentage(img, s, settings) == extract_percentage(Strip(img.perc[s][settings]))

RECURSIVE SumPercentages(_)
SumPercentages(data) ==
  IF data = <<>> THEN 0 ELSE data[1].percentage + SumPercentages(Tail(data))

Distance100(total) == IF total >= 100 THEN total - 100 ELSE 100 - total

RetryWarranted(result) ==
  /\ result.heroes > 0
  /\ \/ result.total > 102
     \/ result.heroes <= 2 /\ result.total < 98

\* C1: the secondary full pass runs if and only if the primary result A has
\* count_A > 0 and (total_A > 102 or (count_A <= 2 and total_A < 98)); with
\* count_A <= 2 a total of 97 triggers it and 98 does not; with count_A >= 3
\* a total below 98 never triggers it.
C1_RetryGate ==
  /\ (state \in {"RETRY_NEEDED", "SECONDARY_DONE"} \/ secondary # None
      \/ Ran("Secondary"))
       => RetryWarranted(primary)
  /\ state \in Terminal =>
       /\ Ran("Secondary") <=> RetryWarranted(primary)
       /\ (primary.heroes \in 1..2 /\ primary.total = 97) => Ran("Secondary")
       /\ (primary.heroes \in 1..2 /\ primary.total = 98) => ~Ran("Secondary")
       /\ (primary.heroes >= 3 /\ primary.total < 98) => ~Ran("Secondary")

C1_Witness ==
  /\ state \in Terminal
  /\ primary.heroes = 2
  /\ primary.total = 97
  /\ Ran("Secondary")

\* C2: final validation of the selected result (participants, total, count)
\* with count >= 1 returns None if total > 102 or (count <= 2 and total < 98)
\* and the participant set otherwise; with count >= 3 totals of 97 and 98 are
\* accepted; when the primary and the secondary totals both exceed 102 the
\* image is rejected.
C2_FinalValidation ==
  state \in Terminal =>
    /\ Len(final_data) >= 1 =>
         IF final_total[1] > 102 \/ (Len(final_data) <= 2 /\ final_total[1] < 98)
         THEN returned = None /\ state = "REJECTED"
         ELSE returned = final_data /\ state = "ACCEPTED"
    /\ (Len(final_data) >= 3 /\ final_total[1] \in {97, 98}) => returned = final_data
    /\ (secondary # None /\ primary.total > 102 /\ secondary.total > 102)
         => returned = None

C2_Witness ==
  /\ state = "ACCEPTED"
  /\ Len(final_data) = 3
  /\ final_total[1] = 97
  /\ returned = final_data

\* C3: after the secondary pass the result handed to final validation is B
\* if count_B > count_A, otherwise B if count_B = count_A and
\* |total_B - 100| < |total_A - 100|, otherwise A; for counts 2 and 2 and
\* totals 105 and 99 it is B.
C3_Selection ==
  (state \in Terminal /\ secondary # None) =>
    /\ IF secondary.heroes > primary.heroes
       THEN final_data = secondary.hero_data /\ final_total[1] = secondary.total
       ELSE IF /\ secondary.heroes = primary.heroes
               /\ Distance100(secondary.total) < Distance100(primary.total)
       THEN final_data = secondary.hero_data /\ final_total[1] = secondary.total
       ELSE final_data = primary.hero_data /\ final_total[1] = primary.total
    /\ (primary.heroes = 2 /\ secondary.heroes = 2
        /\ primary.total = 105 /\ secondary.total = 99)
         => final_data = secondary.hero_data /\ final_total[1] = 99

C3_Witness ==
  /\ state \in Terminal
  /\ secondary # None
  /\ primary.heroes = 2 /\ secondary.heroes = 2
  /\ primary.total = 105 /\ secondary.total = 99
  /\ final_total[1] = 99
  /\ final_data = secondary.hero_data
  /\ final_data # primary.hero_data

\* C4: if the primary pass yields zero participants, no secondary pass is
\* made and no participants are returned, whatever the secondary preset
\* would have recognized.
C4_NoParticipants ==
  (primary # None /\ primary.heroes = 0) =>
    /\ secondary = None
    /\ ~Ran("Secondary")
    /\ state \in {"PRIMARY_DONE", "REJECTED"}
    /\ returned = None

C4_Witness ==
  /\ state = "REJECTED"
  /\ primary.heroes = 0
  /\ passes = <<"Primary">>
  /\ \E s \in SLOTS : /\ RawName(image, s) # None
                      /\ RawPercentage(image, s, "Secondary") > 0

\* C6: every run starts with exactly one primary pass, runs the secondary
\* pass at most once and only after the primary pass via RETRY_NEEDED, ends
\* in exactly one of ACCEPTED and REJECTED, and takes no step after that.
C6_Transitions ==
  { <<"NOT_STARTED", "PRIMARY_DONE">>, <<"PRIMARY_DONE", "RETRY_NEEDED">>,
    <<"RETRY_NEEDED", "SECONDARY_DONE">>,
    <<"PRIMARY_DONE", "ACCEPTED">>, <<"PRIMARY_DONE", "REJECTED">>,
    <<"SECONDARY_DONE", "ACCEPTED">>, <<"SECONDARY_DONE", "REJECTED">> }

C6_StateMachine ==
  /\ [](/\ state \in {"NOT_STARTED", "PRIMARY_DONE", "RETRY_NEEDED",
                      "SECONDARY_DONE", "ACCEPTED", "REJECTED"}
        /\ passes \in {<<>>, <<"Primary">>, <<"Primary", "Secondary">>}
        /\ state = "NOT_STARTED" <=> passes = <<>>
        /\ state \in {"PRIMARY_DONE", "RETRY_NEEDED"} => passes = <<"Primary">>
        /\ state = "SECONDARY_DONE" => passes = <<"Primary", "Secondary">>)
  /\ [][/\ <<state, state'>> \in C6_Transitions
        /\ passes' # passes =>
             \/ state = "NOT_STARTED" /\ passes' = <<"Primary">>
             \/ state = "RETRY_NEEDED" /\ passes' = <<"Primary", "Secondary">>
        /\ state \notin Terminal]_vars
  /\ <>(state \in Terminal)

C6_Witness ==
  /\ state = "ACCEPTED"
  /\ passes = <<"Primary", "Secondary">>

\* the participants of one pass, read from the image slot by slot
SlotsRead(img, settings) ==
  SelectSeq(<<1, 2, 3>>,
            LAMBDA s : RawName(img, s) # None
                       /\ RawPercentage(img, s, settings) >= 1)

ParticipantsRead(img, settings) ==
  [k \in 1..Len(SlotsRead(img, settings)) |->
     [hero |-> RawName(img, SlotsRead(img, settings)[k]),
      percentage |-> RawPercentage(img, SlotsRead(img, settings)[k], settings)]]

\* C7: on acceptance the returned list is exactly the list of the selected
\* pass (all of A or all of B), in slot order, names and percentages as
\* recognized: nothing is normalized, rescaled or capped.
C7_ReturnedAsRecognized ==
  state = "ACCEPTED" =>
    /\ returned = final_data
    /\ \/ /\ final_data = primary.hero_data
          /\ returned = ParticipantsRead(image, "Primary")
       \/ /\ secondary # None
          /\ final_data = secondary.hero_data
          /\ returned = ParticipantsRead(image, "Secondary")
    /\ SumPercentages(returned) = final_total[1]

C7_Witness ==
  /\ state = "ACCEPTED"
  /\ secondary # None
  /\ returned = secondary.hero_data
  /\ returned # primary.hero_data
  /\ Len(returned) = 2
  /\ SumPercentages(returned) = 101

PassResultSound(result, settings) ==
  result # None =>
    /\ result.heroes = Len(result.hero_data)
    /\ \A i \in DOMAIN result.hero_data : result.hero_data[i].percentage >= 1
    /\ result.total = SumPercentages(result.hero_data)
    /\ result.heroes =
         Cardinality({s \in SLOTS : /\ RawName(image, s) # None
                                    /\ RawPercentage(image, s, settings) # 0})

\* C8: a slot whose name resolves but whose percentage parses to 0 is not
\* appended, adds nothing to the total and is not counted; every participant
\* of a pass result or of the accepted set has percentage >= 1 and count is
\* the length of the list.
C8_ZeroPercentageDropped ==
  /\ PassResultSound(primary, "Primary")
  /\ PassResultSound(secondary, "Secondary")
  /\ returned # None => \A i \in DOMAIN returned : returned[i].percentage >= 1

C8_Witness ==
  /\ state = "ACCEPTED"
  /\ RawName(image, 3) # None
  /\ RawPercentage(image, 3, "Primary") = 0
  /\ primary.heroes = 2
  /\ Len(primary.hero_data) = 2
  /\ returned = primary.hero_data

HeroResolves(k) == hero_of_text(Strip(h_texts[k])) # None

\* C9: the presets are tried in the order primary, secondary, tertiary and
\* the first non-null name is returned without running a later preset: if
\* preset k is the first that resolves, exactly k OCR attempts are made; if
\* none resolves, None is returned after exactly three.
C9_FirstPresetWins ==
  /\ h_ocr = SubSeq(<<"Primary", "Secondary", "Tertiary">>, 1, Len(h_ocr))
  /\ h_pc = "done" =>
       IF \E k \in 1..3 : HeroResolves(k)
       THEN LET first == CHOOSE k \in 1..3 :
                           HeroResolves(k) /\ \A j \in 1..(k - 1) : ~HeroResolves(j)
            IN  /\ Len(h_ocr) = first
                /\ h_ret = hero_of_text(Strip(h_texts[first]))
                /\ h_ret # None
       ELSE Len(h_ocr) = 3 /\ h_ret = None

C9_Witness ==
  /\ h_pc = "done"
  /\ h_ocr = <<"Primary", "Secondary">>
  /\ ~HeroResolves(1)
  /\ HeroResolves(2)
  /\ HeroResolves(3)
  /\ h_ret = hero_of_text(Strip(h_texts[2]))

(***************************************************************************)
(* Properties of process_screenshots                                       *)
(***************************************************************************)
\* a step that processes the file at the current index
FileStep == b_pc = "loop" /\ index' = index + 1

\* a call that ends at the pre-flight check
FailedCallStep == b_pc \in {"idle", "returned"} /\ b_pc' = "returned"

SavedFiles == {log.saved[k].file : k \in DOMAIN log.saved}

\* C5: save_match is called for a file only with all five extraction results
\* present: timestamp, map name, outcome, duration in seconds (0 is present)
\* and a validated non-empty participant list; a file with an absent result
\* is never handed to save_match, writes nothing to the store and is counted
\* as an error.
C5_CompleteRecordsOnly ==
  /\ [](\A k \in DOMAIN log.saved :
          /\ SampleScreenshots[log.saved[k].file].kind = "image"
          /\ log.saved[k].date # None
          /\ log.saved[k].date = fields_of(log.saved[k].file).game_datetime
          /\ log.saved[k].map_name # None
          /\ log.saved[k].map_name = fields_of(log.saved[k].file).game_map
          /\ log.saved[k].result # None
          /\ log.saved[k].result = fields_of(log.saved[k].file).game_result
          /\ Len(log.saved[k].length_sec) = 1
          /\ log.saved[k].length_sec[1] >= 0
          /\ log.saved[k].length_sec = fields_of(log.saved[k].file).game_length_sec
          /\ Len(log.saved[k].hero_data) >= 1
          /\ log.saved[k].hero_data = fields_of(log.saved[k].file).hero_data
          /\ SumPercentages(log.saved[k].hero_data) <= 102)
  /\ [][(FileStep /\ \/ fields_of(file_list[index]).game_datetime = None
                     \/ fields_of(file_list[index]).game_map = None
                     \/ fields_of(file_list[index]).game_result = None
                     \/ fields_of(file_list[index]).game_length_sec = None
                     \/ fields_of(file_list[index]).hero_data = None)
          => /\ log'.saved = log.saved
             /\ db' = db
             /\ error_files' = error_files + 1
             /\ processed_files' = processed_files
             /\ skipped_files' = skipped_files]_vars

C5_Witness ==
  /\ b_pc = "returned"
  /\ file_list = <<"nolength", "zero">>
  /\ SavedFiles = {"zero"}
  /\ log.saved[1].length_sec = <<0>>
  /\ log.saved[1].outcome = "stored"
  /\ Len(db.matches) = 1
  /\ db.matches[1].length_sec = <<0>>
  /\ stats.errors = 1
  /\ stats.processed = 1

\* C10: when the OCR engine pre-flight check fails, process_screenshots
\* returns a result with the error and total, processed, skipped and errors
\* all 0; it opens no image, initialises and writes no database, moves no
\* file and never calls the progress callback.  The check is made once per
\* call, however many files are processed.
C10_PreflightAbort ==
  /\ [](b_pc # "idle" => log.preflight = 1)
  /\ []((b_pc = "returned" /\ "error" \in DOMAIN stats) =>
          /\ stats.total = 0
          /\ stats.processed = 0
          /\ stats.skipped = 0
          /\ stats.errors = 0
          /\ log.opened = <<>>
          /\ log.saved = <<>>
          /\ log.moved = <<>>
          /\ log.progress = <<>>
          /\ log.init_database = 0)
  /\ [][FailedCallStep =>
          /\ "error" \in DOMAIN stats'
          /\ db' = db
          /\ folder' = folder
          /\ extracted' = extracted]_vars

C10_Witness ==
  /\ b_pc = "returned"
  /\ "error" \in DOMAIN stats
  /\ has_callback
  /\ calls = 1
  /\ Cardinality(folder) = 2
  /\ db = EmptyDatabase

(***************************************************************************)
(* Properties of save_match                                                *)
(***************************************************************************)
\* a step of the batch that calls save_match
SaveStep == FileStep /\ Len(log'.saved) = Len(log.saved) + 1

\* the call of save_match made by the step
LastSave == log'.saved[Len(log'.saved)]

\* the store holds a matches row with the key of the submitted record
KeyStored(d, c) ==
  \E r \in DOMAIN d.matches :
    /\ d.matches[r].date = utc_date_str_of(zone, c.date)
    /\ d.matches[r].map = c.map_name
    /\ d.matches[r].result = c.result
    /\ d.matches[r].length_sec = c.length_sec

\* C11: the matches table never holds two rows with the same (date, map,
\* result, length_sec); a record whose key is already stored is refused:
\* save_match returns False and both tables stay as they were, whatever
\* participant list the second submission carries.
C11_UniqueMatches ==
  /\ [](\A i, j \in DOMAIN db.matches :
          (/\ db.matches[i].date = db.matches[j].date
           /\ db.matches[i].map = db.matches[j].map
           /\ db.matches[i].result = db.matches[j].result
           /\ db.matches[i].length_sec = db.matches[j].length_sec) => i = j)
  /\ [][(SaveStep /\ KeyStored(db, LastSave))
          => /\ ~save_match(LastSave.outcome)
             /\ db'.matches = db.matches
             /\ db'.match_heroes = db.match_heroes]_vars

C11_Witness ==
  /\ Len(log.saved) = 2
  /\ log.saved[1].outcome = "stored"
  /\ log.saved[2].outcome = "duplicate"
  /\ log.saved[2].hero_data # log.saved[1].hero_data
  /\ Len(db.matches) = 1
  /\ Len(db.match_heroes) = Len(log.saved[1].hero_data)
  /\ \A k \in DOMAIN db.match_heroes :
       /\ db.match_heroes[k].hero_name = log.saved[1].hero_data[k].hero
       /\ db.match_heroes[k].play_percentage = log.saved[1].hero_data[k].percentage

\* C12: the batch counts a file as skipped (duplicate) only when the record
\* handed to save_match was already in the store.
C12_SkippedOnlyDuplicates ==
  [][(FileStep /\ skipped_files' = skipped_files + 1)
       => KeyStored(db, LastSave)]_vars

\* a call that counts a file as skipped although the store holds no match
C12_Witness ==
  /\ b_pc = "returned"
  /\ "skipped" \in DOMAIN stats
  /\ stats.skipped = 1
  /\ Len(log.saved) = 1
  /\ log.saved[1].outcome = "database_error"
  /\ db.matches = <<>>

(***************************************************************************)
(* Properties of the value extract_hero_data returns                       *)
(***************************************************************************)
\* C13: the rejection of a recognized but invalid participant set can be
\* told from the returned value: an image with no participant returns None,
\* so a rejected set that holds participants returns something else.
C13_InvalidSetDistinct ==
  (state = "REJECTED" /\ final_data # <<>>) => returned # None

(***************************************************************************)
(* Properties of engine invocations that run side by side                  *)
(***************************************************************************)
\* C14: engine invocations whose steps interleave in any order each return
\* what extract_hero_data returns for their image when run alone; a step of
\* one invocation changes no variable of another and no invocation changes
\* its image.
C14_IndependentInvocations ==
  /\ [](\A w \in DOMAIN workers :
          workers[w].pc = "done" =>
            workers[w].returned = extract_hero_data(workers[w].image))
  /\ [][\A v, w \in DOMAIN workers :
          /\ workers'[v].image = workers[v].image
          /\ (v # w /\ workers'[v] # workers[v]) => workers'[w] = workers[w]]_vars

C14_Witness ==
  /\ workers # <<>>
  /\ workers[1].pc = "done"
  /\ workers[1].primary # None
  /\ workers[1].returned # None
  /\ workers[2].pc = "done"
  /\ workers[2].image # workers[1].image
  /\ workers[2].returned = None

(***************************************************************************)
(* Properties of the extractors of screenshot_utils                        *)
(***************************************************************************)
\* the call in progress is a call of extract_map_name whose OCR returned
MapCall == call # None /\ call.fn = "extract_map_name" /\ call.ocr.ok

\* the stripped, upper-cased text of the map region of the call
MapCallText == StrUpper(Strip(call.ocr.text))

\* the map the call resolved to, on either path
MapCallResult == IF call.return_raw THEN call.ret[1] ELSE call.ret

\* text equals a vocabulary entry case-insensitively
IsMapName(text) ==
  \E m \in DOMAIN OVERWATCH_MAPS : StrUpper(OVERWATCH_MAPS[m]) = text

\* a non-empty text contains, or is contained in, a vocabulary entry
GenuineContainment(text) ==
  /\ text # <<>>
  /\ \E m \in DOMAIN OVERWATCH_MAPS :
       \/ Contains(text, StrUpper(OVERWATCH_MAPS[m]))
       \/ Contains(StrUpper(OVERWATCH_MAPS[m]), text)

\* C15: extract_map_name returns None whenever the text of the map region
\* is not a recognizable map, in particular when it is empty or blank; it
\* returns a map only for a text that equals a vocabulary entry, is a key of
\* the correction table or genuinely contains or is contained in an entry.
C15_UnrecognizableIsNone ==
  MapCall =>
    /\ MapCallText = <<>> => MapCallResult = None
    /\ MapCallResult # None =>
         \/ IsMapName(MapCallText)
         \/ InMapCorrections(MapCallText)
         \/ GenuineContainment(MapCallText)

\* an empty text of the map region has been resolved to the first map of the
\* catalogue
C15_Witness ==
  /\ MapCall
  /\ call.ocr.text = <<>>
  /\ ~call.return_raw
  /\ call.ret = OVERWATCH_MAPS[1]

\* the resolution in the order correction table, exact name, containment
ReferenceResolution(text) ==
  IF InMapCorrections(text) THEN MapCorrection(text)
  ELSE IF IsMapName(text)
       THEN OVERWATCH_MAPS[CHOOSE m \in DOMAIN OVERWATCH_MAPS :
                             /\ StrUpper(OVERWATCH_MAPS[m]) = text
                             /\ \A n \in 1..(m - 1) : StrUpper(OVERWATCH_MAPS[n]) # text]
       ELSE MapByContainment(text)

\* C16: for every upper-cased text of the map region extract_map_name
\* returns what the resolution in the order correction table, exact name,
\* containment (first entry in catalogue order) returns; a key of the
\* correction table is resolved through the table; the return_raw path
\* resolves to the map of the default path and returns the text with it.
C16_MapResolutionOrder ==
  MapCall =>
    /\ MapCallResult = ReferenceResolution(MapCallText)
    /\ InMapCorrections(MapCallText) => MapCallResult = MapCorrection(MapCallText)
    /\ MapCallResult = extract_map_name(call.ocr, FALSE)
    /\ call.return_raw => call.ret[2] = MapCallText

\* NUMBAN1 has been resolved to Numbani, which contains no NUMBAN1 and is
\* not contained in it
C16_Witness ==
  /\ MapCall
  /\ MapCallText = MAP_CORRECTIONS[4][1]
  /\ ~Contains(StrUpper(MAP_CORRECTIONS[4][2]), MapCallText)
  /\ call.return_raw
  /\ call.ret[1] = MAP_CORRECTIONS[4][2]

\* the call is a call of extract_game_length
LengthCall == call # None /\ call.fn = "extract_game_length"

\* the whole-frame text of the call holds 'GAME LENGTH: M:SS'
LengthInText ==
  \E i \in 1..Len(call.text) :
    /\ StartsWithAt(call.text, i, GAME_LENGTH_LABEL)
    /\ MinSecAt(call.text, SkipWhitespace(call.text, i + Len(GAME_LENGTH_LABEL)))

\* s is M:SS or MM:SS
IsMinSec(s) ==
  /\ Len(s) \in {4, 5}
  /\ s[Len(s) - 2] = ":"
  /\ \A q \in (1..Len(s)) \ {Len(s) - 2} : IsDigit(s[q])

\* the stripped text of the region holds M:SS or MM:SS
LengthInRegion ==
  /\ call.region.ok
  /\ \E p \in 1..Len(Strip(call.region.text)), n \in {4, 5} :
       /\ p + n - 1 <= Len(Strip(call.region.text))
       /\ IsMinSec(SubSeq(Strip(call.region.text), p, p + n - 1))

\* 60 * M + SS of the first colon-separated pair of numbers in s
SecondsOf(s) ==
  LET c == CHOOSE q \in 1..Len(s) : s[q] = ":" /\ \A r \in 1..(q - 1) : s[r] # ":"
  IN  60 * ParseInt(SubSeq(s, 1, c - 1)) + ParseInt(SubSeq(s, c + 1, Len(s)))

ResultCall == call # None /\ call.fn = "determine_result"

\* the positions of the call's text at which a literal VICTORY, DEFEAT or
\* DRAW stands, in any letter case
LiteralPositions ==
  { i \in 1..Len(call.text) :
      \E w \in DOMAIN RESULT_WORDS :
        StartsWithAtIgnoreCase(call.text, i, RESULT_WORDS[w]) }

\* the literal that stands at position i
LiteralAt(i) ==
  RESULT_WORDS[CHOOSE w \in DOMAIN RESULT_WORDS :
                 StartsWithAtIgnoreCase(call.text, i, RESULT_WORDS[w])]

\* C18: determine_result returns only VICTORY, DEFEAT, DRAW or None: the
\* first literal of the text, in any letter case, whatever FINAL SCORE line
\* there is; without a literal, the comparison of the scores of
\* 'FINAL SCORE: X VS Y'; without either, None.
C18_ResultValues ==
  ResultCall =>
    /\ call.ret = None \/ \E w \in DOMAIN RESULT_WORDS : call.ret = RESULT_WORDS[w]
    /\ LiteralPositions # {} =>
         call.ret = LiteralAt(CHOOSE i \in LiteralPositions :
                                \A j \in LiteralPositions : i <= j)
    /\ LiteralPositions = {} =>
         call.ret = FinalScoreOfMatch(call.text,
                      FirstMatch(call.text, LAMBDA k : FinalScoreAt(call.text, k)))

\* the text V\u0130CTORY, with a dotted capital I for its second letter, has been returned as it is
C18_Witness ==
  /\ ResultCall
  /\ call.text = <<"V",DOTTED_I,"C","T","O","R","Y">>
  /\ call.ret = call.text
  /\ \A w \in DOMAIN RESULT_WORDS : call.ret # RESULT_WORDS[w]

\* the call is a call of extract_datetime
DateCall == call # None /\ call.fn = "extract_datetime"

\* the position in the call's text of the first 'DATE: dd/dd/dd - dd:dd', 0
\* if there is none
DatePatternPos == FirstMatch(call.text, LAMBDA i : DateAt(call.text, i))

\* the two-digit fields of the first 'DATE: dd/dd/dd - dd:dd' of the text,
\* read as month/day/year hour:minute
DatePatternFields ==
  LET j == SkipWhitespace(call.text, DatePatternPos + Len(DATE_LABEL))
  IN  InputFields(call.text, j, TimeGroupPos(call.text, j + 8))

\* C19: extract_datetime returns None or the complete timestamp in the
\* output format, with the five fields of the text; a text without the
\* pattern, or with a field out of range for '%m/%d/%y %H:%M' (month 13..99,
\* hour 24..99), gives None; 'DATE: 06/26/25 - 03:00' gives
\* '2025-06-26 03:00'.
C19_AbsentOrComplete ==
  DateCall =>
    /\ call.ret # None =>
         /\ DatePatternPos # 0
         /\ OutputShape(call.ret)
         /\ OutputFields(call.ret) = DatePatternFields
    /\ DatePatternPos = 0 => call.ret = None
    /\ (DatePatternPos # 0 /\ (\/ DatePatternFields.month \notin 1..12
                               \/ DatePatternFields.day \notin 1..31
                               \/ DatePatternFields.hour \notin 0..23
                               \/ DatePatternFields.minute \notin 0..59))
         => call.ret = None
    /\ call.text = <<"D","A","T","E",":"," ","0","6","/","2","6","/","2","5"," ","-"," ","0","3",":","0","0">>
         => call.ret = <<"2","0","2","5","-","0","6","-","2","6"," ","0","3",":","0","0">>

\* a text whose first field is 13 has given None
C19_Witness ==
  /\ DateCall
  /\ DatePatternPos # 0
  /\ DatePatternFields.month = 13
  /\ call.ret = None

\* name is a member of the hero vocabulary in its canonical spelling
InVocabulary(name) == \E i \in DOMAIN AllHeroes : AllHeroes[i] = name

\* every name of a participant list is a member of the vocabulary
AllInVocabulary(hero_data) ==
  \A k \in DOMAIN hero_data : InVocabulary(hero_data[k].hero)

\* C20: clean_hero_name returns None or a member of the hero vocabulary in
\* its canonical spelling; every value of the correction table is a
\* vocabulary entry; every name in the result of an attempt and in an
\* accepted participant list is a member of the vocabulary.
C20_ClosedVocabulary ==
  /\ \A k \in DOMAIN HERO_CORRECTIONS : InVocabulary(HERO_CORRECTIONS[k][2])
  /\ (call # None /\ call.fn = "clean_hero_name") =>
       call.ret = None \/ InVocabulary(call.ret)
  /\ (call # None /\ call.fn = "extract_hero_data") =>
       /\ \A s \in PERCENTAGE_SETTINGS : AllInVocabulary(call.attempts[s].hero_data)
       /\ call.ret # None => AllInVocabulary(call.ret)

\* a key of the correction table has been cleaned to the name the table
\* gives, in a spelling the text did not have
C20_Witness ==
  /\ call # None
  /\ call.fn = "clean_hero_name"
  /\ InCorrections(HERO_CORRECTIONS, call.text)
  /\ call.ret = Correction(HERO_CORRECTIONS, call.text)
  /\ call.ret # call.text
  /\ InVocabulary(call.ret)

(***************************************************************************)
(* Properties of the store                                                 *)
(***************************************************************************)
\* save_match has just stored a record
JustSaved == call # None /\ call.fn = "save_match" /\ call.ret

\* the lines print_all_matches_by_season writes for the match stored last
LinesOfLastMatch ==
  { print_all_matches_by_season(db, zone)[i] : i \in
      { j \in DOMAIN db.matches :
          print_all_matches_by_season(db, zone)[j].id = db.match_seq } }

\* C21: the date and the time print_all_matches_by_season displays for a
\* match that save_match stored equal the local timestamp of the record:
\* the conversion to UTC and back is the identity for the local time zone.
C21_TimestampRoundTrip ==
  JustSaved =>
    /\ LinesOfLastMatch # {}
    /\ \A line \in LinesOfLastMatch :
         /\ line.date = SubSeq(call.record.date, 1, 10)
         /\ line.time = SubSeq(call.record.date, 12, 16)

\* the record of 2025-03-30 02:30 has been stored in the zone with summer
\* time and is displayed as 2025-03-30 | 03:30
C21_Witness ==
  /\ JustSaved
  /\ zone = ZoneBerlin
  /\ call.record.date = <<"2","0","2","5","-","0","3","-","3","0"," ","0","2",":","3","0">>
  /\ \E line \in LinesOfLastMatch :
       /\ line.date = <<"2","0","2","5","-","0","3","-","3","0">>
       /\ line.time = <<"0","3",":","3","0">>


(***************************************************************************)
(* C22: process_screenshots visits every listed file once and returns      *)
(***************************************************************************)
\* a call of process_screenshots that passed the pre-flight check
BatchRunning == b_pc = "loop" \/ (b_pc = "returned" /\ log.init_database = 1)

\* the files visited so far are the first index - 1 files of the listing,
\* each once, and each of them raised exactly one of the three counters
VisitedOnceAndCounted ==
  /\ log.opened = SubSeq(file_list, 1, index - 1)
  /\ processed_files + skipped_files + error_files = index - 1

\* the callback was called with (0, total) and then with (i, total) once
\* for every visited file i, in increasing order
ProgressInOrder ==
  has_callback =>
    log.progress = [k \in 1..index |-> <<k - 1, total_files>>]

\* the returned statistics account for every listed file
StatsAccountForAll ==
  b_pc = "returned" =>
    /\ index = Len(file_list) + 1
    /\ stats.total = Len(file_list)
    /\ stats.total = stats.processed + stats.skipped + stats.errors

\* C22: a batch run visits every listed file exactly once, a failure of one
\* file does not abort it, each file raises exactly one of processed, skipped
\* and errors, total = processed + skipped + errors at the return, the
\* progress callback is called with (i, total) once for every i of 1..total
\* in increasing order, and the run terminates
C22_BatchVisitsAllAndTerminates ==
  /\ [](BatchRunning =>
          VisitedOnceAndCounted /\ ProgressInOrder /\ StatsAccountForAll)
  /\ (b_pc = "loop" ~> b_pc = "returned")

\* a run of two files returned: the first file failed, the second was stored
\* and moved, and the callback saw (0,2), (1,2), (2,2)
C22_Witness ==
  /\ b_pc = "returned" /\ log.init_database = 1
  /\ has_callback
  /\ Len(file_list) = 2
  /\ stats.errors = 1 /\ stats.processed = 1
  /\ file_list[1] \notin extracted
  /\ file_list[2] \in extracted
  /\ log.progress = << <<0, 2>>, <<1, 2>>, <<2, 2>> >>

(***************************************************************************)
(* C23: ReadScreenshot's recognize_hero and extract_game_length against    *)
(* the extractors of screenshot_utils                                      *)
(***************************************************************************)
\* a call of screenshot_utils.recognize_hero has returned
HeroCalled == call # None /\ call.fn = "recognize_hero"

\* a call of screenshot_utils.extract_game_length has returned
LengthCalled == call # None /\ call.fn = "extract_game_length"

\* C23: for the same OCR outputs per preset and region,
\* ReadScreenshot.recognize_hero returns the slot name that
\* screenshot_utils.recognize_hero returns, and
\* ReadScreenshot.extract_game_length returns the duration that
\* screenshot_utils.extract_game_length returns
C23_BatchPathRefines ==
  /\ HeroCalled => rs_recognize_hero(call.texts) = call.ret
  /\ LengthCalled => rs_extract_game_length(call.text) = call.ret.ret[1]

\* the primary and the secondary preset read nothing usable and the tertiary
\* reads a name: screenshot_utils returns the hero, ReadScreenshot None
C23_Witness ==
  /\ HeroCalled
  /\ hero_of_text(HeroOcrText(call.texts, 1)) = None
  /\ hero_of_text(HeroOcrText(call.texts, 2)) = None
  /\ call.ret # None
  /\ rs_recognize_hero(call.texts) = None

(***************************************************************************)
(* C24: ReadScreenshot.extract_hero_data against                           *)
(* screenshot_utils.extract_hero_data                                      *)
(***************************************************************************)
\* the copies of extract_hero_data have been applied to a pair (A, B)
Compared == call # None /\ call.fn = "extract_hero_data_of"

\* C24: for the same primary result A and secondary result B with 0 to 3
\* participants each, ReadScreenshot.extract_hero_data and
\* screenshot_utils.extract_hero_data make the same retry decision, select
\* the same pass and return the same value
C24_BatchEngineAgrees ==
  Compared =>
    /\ call.rs.retry = call.su.retry
    /\ call.rs.selected = call.su.selected
    /\ call.rs.ret = call.su.ret

\* a retry after which both copies take the secondary result, which has as
\* many participants as the primary one and is closer to 100, and return it
C24_Witness ==
  /\ Compared
  /\ call.su.retry /\ call.rs.retry
  /\ Len(call.primary) = 2 /\ Len(call.secondary) = 2
  /\ call.rs.selected = "Secondary"
  /\ call.rs.ret = call.secondary
  /\ call.su.ret = call.secondary

(***************************************************************************)
(* C25: DebugScreenshot.extract_hero_data against                          *)
(* screenshot_utils.extract_hero_data                                      *)
(***************************************************************************)
\* C25: for the same primary result A and secondary result B with 0 to 3
\* participants each, DebugScreenshot.extract_hero_data returns the value
\* that screenshot_utils.extract_hero_data returns, also when A has three
\* participants and a total below 98 and no retry is made
C25_DebugEngineAgrees ==
  Compared => call.dbg.ret = call.su.ret

\* three participants with a total below 98: no retry is made, the engine
\* returns the primary result and the debug tool returns None
C25_Witness ==
  /\ Compared
  /\ Len(call.primary) = 3
  /\ total_percentage_of(call.primary) < PERCENTAGE_MIN
  /\ ~call.su.retry /\ ~call.dbg.retry
  /\ call.su.ret = call.primary
  /\ call.dbg.ret = None

(***************************************************************************)
(* C26: after a retry only a selected secondary result can be accepted     *)
(***************************************************************************)
\* screenshot_utils.extract_hero_data made the secondary pass and kept the
\* primary result
KeptPrimaryAfterRetry == call.su.retry /\ call.su.selected = "Primary"

\* the same for ReadScreenshot.extract_hero_data
RsKeptPrimaryAfterRetry == call.rs.retry /\ call.rs.selected = "Primary"

\* C26: whenever the secondary pass ran and the selection keeps the primary
\* result, extract_hero_data returns None; after a retry a list is returned
\* only if the secondary result was selected, and it is that result and
\* passes the final validation; this holds for the function of
\* screenshot_utils and for the one of ReadScreenshot
C26_RetryAcceptsOnlySecondary ==
  Compared =>
    /\ KeptPrimaryAfterRetry => call.su.ret = None
    /\ RsKeptPrimaryAfterRetry => call.rs.ret = None
    /\ (call.su.retry /\ call.su.ret # None) =>
         /\ call.su.selected = "Secondary"
         /\ call.su.ret = call.secondary
         /\ ~final_invalid(total_percentage_of(call.secondary), Len(call.secondary))
    /\ (call.rs.retry /\ call.rs.ret # None) =>
         /\ call.rs.selected = "Secondary"
         /\ call.rs.ret = call.secondary
         /\ ~final_invalid(total_percentage_of(call.secondary), Len(call.secondary))

\* the primary result has two participants and a total above 102, the
\* secondary result has one participant with 98: it would pass the final
\* validation, the primary result is kept and None is returned
C26_Witness ==
  /\ Compared
  /\ Len(call.primary) = 2 /\ Len(call.secondary) = 1
  /\ total_percentage_of(call.primary) > PERCENTAGE_MAX
  /\ ~final_invalid(total_percentage_of(call.secondary), Len(call.secondary))
  /\ KeptPrimaryAfterRetry /\ RsKeptPrimaryAfterRetry
  /\ call.su.ret = None /\ call.rs.ret = None

(***************************************************************************)
(* C27: the participant rows of a stored match                             *)
(***************************************************************************)
\* SELECT hero_name, play_percentage FROM match_heroes WHERE match_id = id,
\* in the order of the row ids, as hero_data entries
RECURSIVE HeroRowsOf(_, _)
HeroRowsOf(rows, id) ==
  IF rows = <<>> THEN <<>>
  ELSE IF rows[1].match_id = id
  THEN <<[hero |-> rows[1].hero_name, percentage |-> rows[1].play_percentage]>>
         \o HeroRowsOf(Tail(rows), id)
  ELSE HeroRowsOf(Tail(rows), id)

\* C27: after save_match returned True, the match_heroes rows of the new
\* match are the entries of the record's hero_data, one row per entry with
\* its name and percentage: as many rows as participants and the same total,
\* also when two entries carry the same hero name
C27_ParticipantsStoredExactly ==
  JustSaved =>
    /\ HeroRowsOf(db.match_heroes, db.match_seq) = call.record.hero_data
    /\ Len(HeroRowsOf(db.match_heroes, db.match_seq)) = Len(call.record.hero_data)
    /\ total_percentage_of(HeroRowsOf(db.match_heroes, db.match_seq))
         = total_percentage_of(call.record.hero_data)

\* the record [Sigma 60, Sigma 40] has been stored: save_match returned True
\* and the match has the single row Sigma 60
C27_Witness ==
  /\ JustSaved
  /\ Len(call.record.hero_data) = 2
  /\ call.record.hero_data[1].hero = call.record.hero_data[2].hero
  /\ total_percentage_of(call.record.hero_data) = 100
  /\ Len(HeroRowsOf(db.match_heroes, db.match_seq)) = 1
  /\ total_percentage_of(HeroRowsOf(db.match_heroes, db.match_seq)) = 60

(***************************************************************************)
(* C28: referential integrity of the store                                 *)
(***************************************************************************)
\* the match_heroes rows whose match_id is the id of no matches row
OrphanRows(d) ==
  { r \in DOMAIN d.match_heroes :
      \A m \in DOMAIN d.matches : d.matches[m].id # d.match_heroes[r].match_id }

\* C28: after any sequence of save_match, manual entry and
\* delete_match_by_date every match_heroes row refers to a matches row that
\* exists: a deleted match leaves no participant rows behind
C28_ReferentialIntegrity == OrphanRows(db) = {}

\* delete_match_by_date has deleted a match and its participant rows are
\* still in match_heroes
C28_Witness ==
  /\ call # None
  /\ call.fn = "delete_match_by_date"
  /\ call.ret = "Successfully deleted match"
  /\ OrphanRows(db) # {}

(***************************************************************************)
(* C29: the total of the percentages of a stored match                     *)
(***************************************************************************)
\* C29: every match in the store has participant percentages that sum to at
\* most PERCENTAGE_MAX, whether save_match or save_manual_match stored it,
\* with one, two or three participants
C29_StoredTotalBounded ==
  \A m \in DOMAIN db.matches :
    total_percentage_of(HeroRowsOf(db.match_heroes, db.matches[m].id))
      <= PERCENTAGE_MAX

\* the manual entry has stored a match with two heroes of 100 percent each
C29_Witness ==
  /\ call # None
  /\ call.fn = "save_manual_match"
  /\ call.ret = "stored"
  /\ Len(HeroRowsOf(db.match_heroes, db.match_seq)) = 2
  /\ total_percentage_of(HeroRowsOf(db.match_heroes, db.match_seq)) = 200

(***************************************************************************)
(* C30: which files process_screenshots moves                              *)
(***************************************************************************)
\* the step moves the file of the iteration to the extracted folder and
\* counts it as processed
MovedAndCounted ==
  /\ folder' = folder \ {file_list[index]}
  /\ extracted' = extracted \cup {file_list[index]}
  /\ file_list[index] \in folder
  /\ processed_files' = processed_files + 1

\* the step leaves the folders and the count of processed files alone
LeftInPlace ==
  /\ folder' = folder
  /\ extracted' = extracted
  /\ processed_files' = processed_files

\* save_match has stored the record of the iteration's file in this step
NewlyStored ==
  /\ SaveStep
  /\ LastSave.file = file_list[index]
  /\ save_match(LastSave.outcome)
  /\ ~KeyStored(db, LastSave)
  /\ KeyStored(db', LastSave)
  /\ Len(db'.matches) = Len(db.matches) + 1

\* C30: an iteration of process_screenshots moves its file to the extracted
\* folder and counts it as processed only if save_match newly stored the
\* record of the file in this run; a file with an incomplete extraction, a
\* duplicate record or a failed save stays in the source folder, and no step
\* deletes a file
C30_MovedOnlyIfStored ==
  /\ [][FileStep => /\ (MovedAndCounted \/ LeftInPlace)
                    /\ MovedAndCounted => NewlyStored
                    /\ ~NewlyStored => LeftInPlace]_vars
  /\ [][/\ folder' \cup extracted' = folder \cup extracted
        /\ ~FileStep => (folder' = folder /\ extracted' = extracted)]_vars

\* a run of two files with the same match: the first was stored and moved,
\* the second was a duplicate and is still in the source folder
C30_Witness ==
  /\ b_pc = "returned" /\ log.init_database = 1
  /\ Len(file_list) = 2
  /\ stats.processed = 1 /\ stats.skipped = 1
  /\ Len(log.saved) = 2
  /\ log.saved[1].outcome = "stored"
  /\ log.saved[2].outcome = "duplicate"
  /\ log.moved = <<file_list[1]>>
  /\ extracted = {file_list[1]}
  /\ folder = {file_list[2]}
====
